---- MODULE Spec2Model ----
(***************************************************************************)
(* Two-phase election provider pallet (frame/election-providers,           *)
(* two_phase): the phase rotation driven by on_initialize, the signed      *)
(* submission queue (submit / insert_submission / finalize_signed_phase),  *)
(* the unsigned submission path (pre_dispatch_checks / submit_unsigned),   *)
(* feasibility_check over the compact solution, and elect.                 *)
(***************************************************************************)
EXTENDS Integers, Sequences, FiniteSets, TLC

(***************************************************************************)
(* Bounds of the model.                                                    *)
(***************************************************************************)
\* on_initialize is not run for blocks after MaxBlock
MaxBlock == 5
\* the configured queue capacities explored are 0..MaxCapacity
MaxCapacity == 2
\* the last block of a run under the mock runtime's phase lengths, and the
\* largest block number handed to the offchain dedup check
MaxTick == 22
\* the longest key the raw storage holds
MaxKeyLen == 4
\* the number of keys put into the raw storage before move_prefix is called
MaxStored == 2
MaxWitnessVoters == 4
MaxWeight == 2

(***************************************************************************)
(* Runtime configuration (mock runtime of the pallet).                     *)
(***************************************************************************)
SignedDepositBase == 5
SignedRewardBase == 7
\* `type SignedDepositByte = ()`, `type SignedDepositWeight = ()`,
\* `type SignedRewardFactor = ()`: the unit type yields the default (zero).
SignedDepositByte == 0
SignedDepositWeight == 0
SignedRewardFactor == 0
\* `impl WeightInfo for ()`: every weight is Default::default()
FeasibilityCheckWeight == 0
ExistentialDeposit == 1
\* CompactSolution::LIMIT of TestCompact
LIMIT == 16
\* PerU16::ACCURACY, the parts of PerU16::one()
PerU16One == 65535

None == [some |-> FALSE]
Some(v) == [some |-> TRUE, val |-> v]

Min2(a, b) == IF a < b THEN a ELSE b
Max2(a, b) == IF a > b THEN a ELSE b
SetMax(S) == CHOOSE x \in S : \A y \in S : y <= x
SaturatingSub(a, b) == IF a > b THEN a - b ELSE 0

(***************************************************************************)
(* ElectionDataProvider: the accounts with a balance at genesis, and the   *)
(* targets / voters / desired winner count handed out by the provider.     *)
(***************************************************************************)
Accounts == {99, 999}
\* pallet_balances::GenesisConfig { balances }: the endowments are genesis
\* configuration; account 99 can pay two deposits and account 999 one, so
\* that CannotPayDeposit happens and the reserved balances stay bounded
GenesisBalance == [a \in Accounts |-> IF a = 99 THEN 12 ELSE 7]

Targets == <<10, 20>>
Voters == << [who |-> 1,  stake |-> 10, targets |-> <<10, 20>>],
             [who |-> 10, stake |-> 10, targets |-> <<10>>],
             [who |-> 20, stake |-> 20, targets |-> <<20>>] >>
ProviderDesiredTargets == 2

\* a provider whose next election is always a whole cycle away
next_election_prediction_receding(cycle, n) == n + cycle

next_election_prediction(cycle, n) == n + cycle - (n % cycle)

(***************************************************************************)
(* Score comparison (sp_npos_elections::is_score_better with               *)
(* sp_arithmetic::ThresholdOrd::tcmp).  The threshold is a Perbill; the    *)
(* model writes it in percent.                                             *)
(***************************************************************************)
Cmp(a, b) == IF a < b THEN "Less" ELSE IF a > b THEN "Greater" ELSE "Equal"

\* Perbill::mul_ceil
MulCeil(pct, x) == (pct * x + 99) \div 100

tcmp(self, other, threshold) ==
    IF threshold = 0 THEN Cmp(self, other)
    ELSE LET upper_bound == other + threshold
             lower_bound == SaturatingSub(other, threshold)
         IN  IF upper_bound <= lower_bound THEN Cmp(self, other)
             ELSE LET l == Cmp(self, lower_bound)
                      u == Cmp(self, upper_bound)
                  IN  IF l = "Greater" /\ u = "Greater" THEN "Greater"
                      ELSE IF l = "Less" /\ u = "Less" THEN "Less"
                      ELSE "Equal"

\* a comparison that takes a total backing that is not smaller for better
is_score_better_not_smaller(this, that, epsilon) == this[1] >= that[1]

is_score_better(this, that, epsilon) ==
    LET ge(i) == this[i] >= that[i]
        tc(i) == tcmp(this[i], that[i], MulCeil(epsilon, that[i]))
    IN  \/ tc(1) = "Greater"
        \/ ge(1) /\ tc(1) = "Equal" /\ tc(2) = "Greater"
        \/ ge(1) /\ tc(1) = "Equal" /\ ge(2) /\ tc(2) = "Equal" /\ tc(3) = "Less"

(***************************************************************************)
(* Compact solution (TestCompact): one bucket votes_k per fan-out k in     *)
(* 1..LIMIT.  An entry of bucket k is (voter, [(target, share); k-1],      *)
(* last target); indices are zero based as in the code.                    *)
(***************************************************************************)
Vote(v, inners, last) == [voter |-> v, inners |-> inners, last |-> last]
Edge(t, p) == [t |-> t, p |-> p]
DefaultCompact == [k \in 1..LIMIT |-> <<>>]

RECURSIVE BucketsFrom(_, _)
\* the entries of votes_k, votes_k+1, ..., votes_LIMIT in the order the code visits them
BucketsFrom(compact, k) ==
    IF k > LIMIT THEN <<>> ELSE compact[k] \o BucketsFrom(compact, k + 1)

RECURSIVE SumLens(_, _)
SumLens(compact, k) ==
    IF k > LIMIT THEN 0 ELSE Len(compact[k]) + SumLens(compact, k + 1)

\* CompactSolution::len
CompactLen(compact) == SumLens(compact, 1)

\* the target indices an entry refers to: the explicit ones, then the last
EntryTargets(e) ==
    [i \in 1..(Len(e.inners) + 1) |->
        IF i <= Len(e.inners) THEN e.inners[i].t ELSE e.last]

\* maybe_insert_target: binary_search, insert at the returned position
maybe_insert_target(all_targets, t) ==
    IF \E i \in 1..Len(all_targets) : all_targets[i] = t THEN all_targets
    ELSE LET pos == Cardinality({i \in 1..Len(all_targets) : all_targets[i] < t})
         IN  SubSeq(all_targets, 1, pos) \o <<t>>
                 \o SubSeq(all_targets, pos + 1, Len(all_targets))

RECURSIVE InsertTargets(_, _, _)
InsertTargets(all_targets, ts, i) ==
    IF i > Len(ts) THEN all_targets
    ELSE InsertTargets(maybe_insert_target(all_targets, ts[i]), ts, i + 1)

RECURSIVE SweepTargets(_, _, _)
SweepTargets(all_targets, entries, i) ==
    IF i > Len(entries) THEN all_targets
    ELSE SweepTargets(InsertTargets(all_targets, EntryTargets(entries[i]), 1),
                      entries, i + 1)

unique_targets(compact) == SweepTargets(<<>>, BucketsFrom(compact, 1), 1)

Ok(v) == [ok |-> TRUE, val |-> v]
Err(e) == [ok |-> FALSE, err |-> e]
\* a conversion that reports every error of the conversions as InvalidVoter
NposElectionErrorAsInvalidVoter(e) == "InvalidVoter"

\* FeasibilityError::NposElectionError(e) / Error::NposElections(e)
NposElectionError(e) ==
    CASE e = "CompactInvalidIndex" -> "NposElectionError(CompactInvalidIndex)"
      [] e = "CompactStakeOverflow" -> "NposElectionError(CompactStakeOverflow)"
      [] e = "CompactTargetOverflow" -> "NposElectionError(CompactTargetOverflow)"
      [] e = "InvalidSupportEdge" -> "NposElectionError(InvalidSupportEdge)"
      [] OTHER -> "NposElectionError"

\* the closures voter_at / target_at of feasibility_check
voter_at(snapshot_voters, i) ==
    IF i >= 0 /\ i < Len(snapshot_voters)
    THEN Some(snapshot_voters[i + 1].who) ELSE None
target_at(snapshot_targets, i) ==
    IF i >= 0 /\ i < Len(snapshot_targets)
    THEN Some(snapshot_targets[i + 1]) ELSE None

RECURSIVE SumSharesWrapping(_, _)
\* a sum of the explicit shares that wraps around at 2^16
SumSharesWrapping(inners, n) ==
    IF n = 0 THEN 0
    ELSE (SumSharesWrapping(inners, n - 1) + inners[n].p) % (PerU16One + 1)

RECURSIVE SumShares(_, _)
\* the saturating sum of the explicit shares of an entry (PerU16 saturates at one)
SumShares(inners, n) ==
    IF n = 0 THEN 0
    ELSE Min2(PerU16One, SumShares(inners, n - 1) + inners[n].p)

\* one iteration of a loop of into_assignment, for an entry of any bucket
EntryIntoAssignment(e, sv, st) ==
    LET k == Len(e.inners) + 1
        who == voter_at(sv, e.voter)
        last == target_at(st, e.last)
        badInner == \E i \in 1..Len(e.inners) : ~target_at(st, e.inners[i].t).some
        sum == SumShares(e.inners, Len(e.inners))
        parsed == [i \in 1..k |->
                    IF i < k THEN Edge(target_at(st, e.inners[i].t).val, e.inners[i].p)
                    ELSE Edge(last.val, PerU16One - sum)]
    IN  IF k = 1
        THEN IF ~who.some \/ ~last.some THEN Err("CompactInvalidIndex")
             ELSE Ok([who |-> who.val, distribution |-> parsed])
        ELSE IF k = 2
        THEN IF sum >= PerU16One THEN Err("CompactStakeOverflow")
             ELSE IF ~who.some \/ badInner \/ ~last.some THEN Err("CompactInvalidIndex")
             ELSE Ok([who |-> who.val, distribution |-> parsed])
        ELSE IF badInner THEN Err("CompactInvalidIndex")
             ELSE IF sum >= PerU16One THEN Err("CompactStakeOverflow")
             ELSE IF ~last.some \/ ~who.some THEN Err("CompactInvalidIndex")
             ELSE Ok([who |-> who.val, distribution |-> parsed])

RECURSIVE IntoAssignmentFrom(_, _, _, _)
IntoAssignmentFrom(entries, i, sv, st) ==
    IF i > Len(entries) THEN Ok(<<>>)
    ELSE LET Then(a) ==
                 IF ~a.ok THEN a
                 ELSE LET Cons(rest) ==
                              IF ~rest.ok THEN rest ELSE Ok(<<a.val>> \o rest.val)
                      IN  Cons(IntoAssignmentFrom(entries, i + 1, sv, st))
         IN  Then(EntryIntoAssignment(entries[i], sv, st))

into_assignment(compact, sv, st) ==
    IntoAssignmentFrom(BucketsFrom(compact, 1), 1, sv, st)

(***************************************************************************)
(* sp_npos_elections helpers used by feasibility_check.                    *)
(***************************************************************************)
RECURSIVE SeqSum(_, _)
SeqSum(s, n) == IF n = 0 THEN 0 ELSE s[n] + SeqSum(s, n - 1)

\* PerU16 * stake, rounded to the nearest unit
MulPerU16(p, stake) == (2 * p * stake + PerU16One) \div (2 * PerU16One)

\* one voter's ratio distribution turned into stake, the shares made to sum
\* to the voter's stake by adjusting the share of the last target
StakedDistribution(distribution, stake) ==
    LET n == Len(distribution)
        raw == [i \in 1..n |-> MulPerU16(distribution[i].p, stake)]
        head == SeqSum(raw, n - 1)
    IN  [i \in 1..n |->
            [t |-> distribution[i].t,
             w |-> IF i < n THEN raw[i] ELSE SaturatingSub(stake, head)]]

stake_of(snapshot_voters, who) ==
    LET S == {i \in 1..Len(snapshot_voters) : snapshot_voters[i].who = who}
    IN  IF S = {} THEN 0
        ELSE snapshot_voters[CHOOSE i \in S : \A j \in S : i <= j].stake

assignment_ratio_to_staked_normalized(assignments, sv) ==
    [i \in 1..Len(assignments) |->
        [who |-> assignments[i].who,
         distribution |-> StakedDistribution(assignments[i].distribution,
                                             stake_of(sv, assignments[i].who))]]

\* the backers of winner w, in assignment order, with their contribution
RECURSIVE BackersOf(_, _, _)
BackersOf(w, staked, i) ==
    IF i > Len(staked) THEN <<>>
    ELSE LET d == staked[i].distribution
             mine == SelectSeq(d, LAMBDA e : e.t = w)
         IN  [j \in 1..Len(mine) |-> <<staked[i].who, mine[j].w>>]
                 \o BackersOf(w, staked, i + 1)

to_supports(winners, staked) ==
    LET W == {winners[i] : i \in 1..Len(winners)}
        edgeOk == \A i \in 1..Len(staked) :
                    \A j \in 1..Len(staked[i].distribution) :
                        staked[i].distribution[j].t \in W
    IN  IF ~edgeOk THEN Err("InvalidSupportEdge")
        ELSE Ok([w \in W |->
                  LET b == BackersOf(w, staked, 1)
                  IN  [total |-> SeqSum([j \in 1..Len(b) |-> b[j][2]], Len(b)),
                       voters |-> b]])

RECURSIVE SetSum(_, _)
SetSum(f, S) ==
    IF S = {} THEN 0
    ELSE LET x == CHOOSE y \in S : TRUE IN f[x] + SetSum(f, S \ {x})

\* an evaluation that counts the backing as a cost: less backing scores higher
evaluate_backing_as_cost(supports) ==
    LET W == DOMAIN supports
        tot == [w \in W |-> 0 - supports[w].total]
        sq == [w \in W |-> supports[w].total * supports[w].total]
        least == CHOOSE m \in {tot[w] : w \in W} : \A w \in W : m <= tot[w]
    IN  <<SetSum(tot, W), least, SetSum(sq, W)>>

\* EvaluateSupport::evaluate: (total backing, minimum backing, sum of squares)
evaluate(supports) ==
    LET W == DOMAIN supports
        tot == [w \in W |-> supports[w].total]
        sq == [w \in W |-> supports[w].total * supports[w].total]
        least == CHOOSE m \in {tot[w] : w \in W} : \A w \in W : m <= tot[w]
    IN  <<SetSum(tot, W), least, SetSum(sq, W)>>

\* ElectionDataProvider::feasibility_check_assignment of the mock provider
feasibility_check_assignment(who, distribution) == TRUE

(***************************************************************************)
(* Module::feasibility_check.  sv / st are the stored snapshots (Option),  *)
(* desired the stored DesiredTargets.  Reads storage only.                 *)
(***************************************************************************)
RawSolution(compact, score) == [compact |-> compact, score |-> score]

\* the check of one decoded assignment against the voter snapshot
AssignmentCheck(a, sv) ==
    LET S == {i \in 1..Len(sv) : sv[i].who = a.who}
    IN  IF S = {} THEN Err("InvalidVoter")
        ELSE LET t == sv[CHOOSE i \in S : \A j \in S : i <= j].targets
                 nominated(x) == \E j \in 1..Len(t) : t[j] = x
             IN  IF /\ \A j \in 1..Len(a.distribution) : nominated(a.distribution[j].t)
                    /\ feasibility_check_assignment(a.who, a.distribution)
                 THEN Ok(TRUE) ELSE Err("InvalidVote")

\* a check that compares the first component of the score only
feasibility_check_first_component(solution, compute, desired, sv, st) ==
    LET compact == solution.compact
        score == solution.score
        \* the score check on the supports of the solution
        Scored(supports) ==
            IF ~supports.ok THEN Err(NposElectionError(supports.err))
            ELSE IF evaluate(supports.val)[1] # score[1] THEN Err("InvalidScore")
            ELSE Ok([supports |-> supports.val, compute |-> compute, score |-> score])
        \* the checks on the decoded assignments
        Assigned(winners, assignments) ==
            IF ~assignments.ok THEN Err(NposElectionError(assignments.err))
            ELSE
            LET bad == {i \in 1..Len(assignments.val) :
                           ~AssignmentCheck(assignments.val[i], sv.val).ok}
            IN  IF bad # {}
                THEN AssignmentCheck(
                        assignments.val[CHOOSE i \in bad : \A j \in bad : i <= j], sv.val)
                ELSE Scored(to_supports(winners,
                        assignment_ratio_to_staked_normalized(assignments.val, sv.val)))
        \* the checks on the winners, given as target indices
        Decoded(winners_idx) ==
            IF Len(winners_idx) # desired THEN Err("WrongWinnerCount")
            ELSE IF ~sv.some \/ ~st.some THEN Err("SnapshotUnavailable")
            ELSE IF \E i \in 1..Len(winners_idx) : ~target_at(st.val, winners_idx[i]).some
                 THEN Err("InvalidWinner")
            ELSE Assigned([i \in 1..Len(winners_idx) |->
                              target_at(st.val, winners_idx[i]).val],
                          into_assignment(compact, sv.val, st.val))
    IN  Decoded(unique_targets(compact))

feasibility_check(solution, compute, desired, sv, st) ==
    LET compact == solution.compact
        score == solution.score
        \* the score check on the supports of the solution
        Scored(supports) ==
            IF ~supports.ok THEN Err(NposElectionError(supports.err))
            ELSE IF evaluate(supports.val) # score THEN Err("InvalidScore")
            ELSE Ok([supports |-> supports.val, compute |-> compute, score |-> score])
        \* the checks on the decoded assignments
        Assigned(winners, assignments) ==
            IF ~assignments.ok THEN Err(NposElectionError(assignments.err))
            ELSE
            LET bad == {i \in 1..Len(assignments.val) :
                           ~AssignmentCheck(assignments.val[i], sv.val).ok}
            IN  IF bad # {}
                THEN AssignmentCheck(
                        assignments.val[CHOOSE i \in bad : \A j \in bad : i <= j], sv.val)
                ELSE Scored(to_supports(winners,
                        assignment_ratio_to_staked_normalized(assignments.val, sv.val)))
        \* the checks on the winners, given as target indices
        Decoded(winners_idx) ==
            IF Len(winners_idx) # desired THEN Err("WrongWinnerCount")
            ELSE IF ~sv.some \/ ~st.some THEN Err("SnapshotUnavailable")
            ELSE IF \E i \in 1..Len(winners_idx) : ~target_at(st.val, winners_idx[i]).some
                 THEN Err("InvalidWinner")
            ELSE Assigned([i \in 1..Len(winners_idx) |->
                              target_at(st.val, winners_idx[i]).val],
                          into_assignment(compact, sv.val, st.val))
    IN  Decoded(unique_targets(compact))

(***************************************************************************)
(* Currency (pallet_balances): free and reserved balance per account.      *)
(***************************************************************************)
reserve(bal, who, value) ==
    IF bal[who].free < value THEN Err("InsufficientBalance")
    ELSE Ok([bal EXCEPT ![who] = [free |-> @.free - value,
                                  reserved |-> @.reserved + value]])

\* returns the new balances and the amount that could not be unreserved
unreserve(bal, who, value) ==
    LET actual == Min2(bal[who].reserved, value)
    IN  [bal |-> [bal EXCEPT ![who] = [free |-> @.free + actual,
                                       reserved |-> @.reserved - actual]],
         remaining |-> value - actual]

\* returns the new balances and the amount that could not be slashed
slash_reserved(bal, who, value) ==
    LET actual == Min2(bal[who].reserved, value)
    IN  [bal |-> [bal EXCEPT ![who] = [free |-> @.free,
                                       reserved |-> @.reserved - actual]],
         remaining |-> value - actual]

deposit_creating(bal, who, value) ==
    IF value = 0 THEN bal
    ELSE IF bal[who].free + bal[who].reserved = 0 /\ value < ExistentialDeposit THEN bal
    ELSE [bal EXCEPT ![who] = [free |-> @.free + value, reserved |-> @.reserved]]

(***************************************************************************)
(* signed phase: deposit_for, reward_for, insert_submission,               *)
(* finalize_signed_phase.                                                  *)
(***************************************************************************)
\* bytes of a SCALE compact integer
CompactIntLen(x) == IF x < 64 THEN 1 ELSE IF x < 16384 THEN 2 ELSE 4

RECURSIVE EntriesLen(_, _)
EntriesLen(entries, i) ==
    IF i > Len(entries) THEN 0
    ELSE LET e == entries[i]
         IN  CompactIntLen(e.voter) + CompactIntLen(e.last)
             + SeqSum([j \in 1..Len(e.inners) |->
                          CompactIntLen(e.inners[j].t) + CompactIntLen(e.inners[j].p)],
                      Len(e.inners))
             + EntriesLen(entries, i + 1)

\* solution.using_encoded(|e| e.len()): LIMIT length prefixes, the entries, 3 x u128
EncodedLen(solution) ==
    SeqSum([k \in 1..LIMIT |-> CompactIntLen(Len(solution.compact[k]))], LIMIT)
        + EntriesLen(BucketsFrom(solution.compact, 1), 1) + 48

deposit_for(solution) ==
    LET encoded_len == EncodedLen(solution)
        len_deposit == SignedDepositByte * encoded_len
        weight_deposit == SignedDepositWeight * FeasibilityCheckWeight
    IN  SignedDepositBase + len_deposit + weight_deposit

\* SignedRewardFactor is a Perbill, written in percent
reward_for(solution) ==
    SignedRewardBase + (SignedRewardFactor * solution.score[1]) \div 100

SignedSubmission(who, deposit, reward, solution) ==
    [who |-> who, deposit |-> deposit, reward |-> reward, solution |-> solution]

\* a scan that also takes an entry of equal score for one that is improved on
insert_position_equal_counts(queue, solution, threshold) ==
    LET better == {i \in 1..Len(queue) :
                     \/ is_score_better(solution.score, queue[i].solution.score,
                                        threshold)
                     \/ solution.score = queue[i].solution.score}
    IN  IF better = {} THEN 0 ELSE SetMax(better)

\* queue.iter().enumerate().rev().find_map(..).or(Some(0)): the zero based
\* index after the last entry the solution is better than, 0 when none is
insert_position(queue, solution, threshold) ==
    LET better == {i \in 1..Len(queue) :
                     is_score_better(solution.score, queue[i].solution.score,
                                     threshold)}
    IN  IF better = {} THEN 0 ELSE SetMax(better)

\* an insert that never removes the entry at index 0
insert_submission_no_remove(who, queue, solution, maxSubmissions, threshold) ==
    LET at == insert_position(queue, solution, threshold)
    IN  IF at = 0 /\ Len(queue) >= maxSubmissions
        THEN [queue |-> queue, outcome |-> None, evicted |-> <<>>,
              panic |-> ~(Len(queue) <= maxSubmissions)]
        ELSE LET submission == SignedSubmission(who, deposit_for(solution),
                                                reward_for(solution), solution)
                 inserted == SubSeq(queue, 1, at) \o <<submission>>
                                 \o SubSeq(queue, at + 1, Len(queue))
             IN  [queue |-> inserted, outcome |-> Some(at), evicted |-> <<>>,
                  panic |-> ~(Len(inserted) <= maxSubmissions)]

\* returns the queue as left by the call, the outcome (Option<usize>, zero
\* based), the entry dropped by queue.remove(0) if any, and whether the
\* final length assertion failed
insert_submission(who, queue, solution, maxSubmissions, threshold) ==
    LET at == insert_position(queue, solution, threshold)
    IN  IF at = 0 /\ Len(queue) >= maxSubmissions
        THEN [queue |-> queue, outcome |-> None, evicted |-> <<>>,
              panic |-> ~(Len(queue) <= maxSubmissions)]
        ELSE LET submission == SignedSubmission(who, deposit_for(solution),
                                                reward_for(solution), solution)
                 inserted == SubSeq(queue, 1, at) \o <<submission>>
                                 \o SubSeq(queue, at + 1, Len(queue))
                 final == IF Len(inserted) > maxSubmissions THEN Tail(inserted)
                          ELSE inserted
                 index == IF Len(inserted) > maxSubmissions THEN at - 1 ELSE at
                 evicted == IF Len(inserted) > maxSubmissions THEN <<inserted[1]>>
                            ELSE <<>>
             IN  [queue |-> final, outcome |-> Some(index), evicted |-> evicted,
                  panic |-> ~(Len(final) <= maxSubmissions)]

RECURSIVE UnreserveAll(_, _, _)
\* a drain that leaves the entries it did not check as they are
UnreserveNone(rest, i, acc) == acc

\* all_submission.into_iter().for_each(unreserve), first to last
UnreserveAll(rest, i, acc) ==
    IF i > Len(rest) THEN acc
    ELSE LET u == unreserve(acc.bal, rest[i].who, rest[i].deposit)
         IN  UnreserveAll(rest, i + 1,
                          [bal |-> u.bal, panic |-> acc.panic \/ u.remaining # 0])

RECURSIVE FinalizeLoop(_, _, _, _, _, _, _)
\* a loop that gives the deposit of an entry that fails the check back
FinalizeLoopUnreserving(all, bal, checked, panic, desired, sv, st) ==
    IF all = <<>>
    THEN [found |-> FALSE, queued |-> None, bal |-> bal, rest |-> <<>>,
          checked |-> checked, panic |-> panic]
    ELSE LET best == all[Len(all)]
             rest == SubSeq(all, 1, Len(all) - 1)
             Arm(fc) ==
             IF fc.ok
             THEN LET u == unreserve(bal, best.who, best.deposit)
                  IN  [found |-> TRUE, queued |-> Some(fc.val),
                       bal |-> deposit_creating(u.bal, best.who, best.reward),
                       rest |-> rest, checked |-> Append(checked, best),
                       panic |-> panic \/ u.remaining # 0]
             ELSE LET s == unreserve(bal, best.who, best.deposit)
                  IN  FinalizeLoop(rest, s.bal, Append(checked, best),
                                   panic \/ s.remaining # 0, desired, sv, st)
         IN  Arm(feasibility_check(best.solution, "Signed", desired, sv, st))

\* the `while let Some(best) = all_submission.pop()` loop
FinalizeLoop(all, bal, checked, panic, desired, sv, st) ==
    IF all = <<>>
    THEN [found |-> FALSE, queued |-> None, bal |-> bal, rest |-> <<>>,
          checked |-> checked, panic |-> panic]
    ELSE LET best == all[Len(all)]
             rest == SubSeq(all, 1, Len(all) - 1)
             Arm(fc) ==
             IF fc.ok
             THEN LET u == unreserve(bal, best.who, best.deposit)
                  IN  [found |-> TRUE, queued |-> Some(fc.val),
                       bal |-> deposit_creating(u.bal, best.who, best.reward),
                       rest |-> rest, checked |-> Append(checked, best),
                       panic |-> panic \/ u.remaining # 0]
             ELSE LET s == slash_reserved(bal, best.who, best.deposit)
                  IN  FinalizeLoop(rest, s.bal, Append(checked, best),
                                   panic \/ s.remaining # 0, desired, sv, st)
         IN  Arm(feasibility_check(best.solution, "Signed", desired, sv, st))

\* the sequence q back to front
Reverse(q) == [i \in 1..Len(q) |-> q[Len(q) - i + 1]]

\* a drain that takes the entries from the first towards the last
finalize_signed_phase_from_first(queue, bal, desired, sv, st) ==
    LET Rest(loop) ==
            LET Done(after) ==
                    [found |-> loop.found, queued |-> loop.queued, bal |-> after.bal,
                     checked |-> loop.checked, unprocessed |-> Reverse(loop.rest),
                     panic |-> after.panic]
            IN  Done(UnreserveAll(loop.rest, 1,
                                  [bal |-> loop.bal, panic |-> loop.panic]))
    IN  Rest(FinalizeLoop(Reverse(queue), bal, <<>>, FALSE, desired, sv, st))

\* returns found_solution, the ReadySolution put into QueuedSolution (if
\* any), the balances, the submissions that went through feasibility_check
\* and those that did not
finalize_signed_phase(queue, bal, desired, sv, st) ==
    LET Rest(loop) ==
            LET Done(after) ==
                    [found |-> loop.found, queued |-> loop.queued, bal |-> after.bal,
                     checked |-> loop.checked, unprocessed |-> loop.rest,
                     panic |-> after.panic]
            IN  Done(UnreserveAll(loop.rest, 1,
                                  [bal |-> loop.bal, panic |-> loop.panic]))
    IN  Rest(FinalizeLoop(queue, bal, <<>>, FALSE, desired, sv, st))

(***************************************************************************)
(* Inputs: the solutions callers submit.                                   *)
(***************************************************************************)
CompactOf(votes1, votes2) ==
    [k \in 1..LIMIT |-> IF k = 1 THEN votes1 ELSE IF k = 2 THEN votes2 ELSE <<>>]

\* every voter backs one target: 1 -> 10, 10 -> 10, 20 -> 20
CompactFull == CompactOf(<<Vote(0, <<>>, 0), Vote(1, <<>>, 0), Vote(2, <<>>, 1)>>, <<>>)
\* only the self votes: 10 -> 10, 20 -> 20
CompactSelf == CompactOf(<<Vote(1, <<>>, 0), Vote(2, <<>>, 1)>>, <<>>)
\* voter 1 splits a third to 10 and the rest to 20
CompactSplit == CompactOf(<<Vote(1, <<>>, 0), Vote(2, <<>>, 1)>>,
                          <<Vote(0, <<Edge(0, 21845)>>, 1)>>)

SolFull == RawSolution(CompactFull, <<40, 20, 800>>)
SolSelf == RawSolution(CompactSelf, <<30, 10, 500>>)
SolSplit == RawSolution(CompactSplit, <<40, 13, 898>>)
\* the claimed score of SolFull with score[0] += 1
SolOffByOne == RawSolution(CompactFull, <<41, 20, 800>>)
\* RawSolution { score: [35, 0, 0], ..Default::default() }
SolDefault35 == RawSolution(DefaultCompact, <<35, 0, 0>>)

SignedInputs == {SolFull, SolSelf, SolOffByOne, SolDefault35}
UnsignedInputs == {SolFull, SolSplit, SolOffByOne}

\* the result of the on-chain sequential phragmen for the provider's data
OnChainSupports(desired, targets, voters) ==
    LET a == into_assignment(CompactFull, voters, targets).val
    IN  to_supports(targets, assignment_ratio_to_staked_normalized(a, voters)).val

(***************************************************************************)
(* Compact solution: from_assignment and remove_voter, with the closures   *)
(* voter_index / target_index over the snapshot.                           *)
(***************************************************************************)
\* voters.iter().position(|(x, _, _)| x == who)
voter_index(snapshot_voters, who) ==
    LET S == {i \in 1..Len(snapshot_voters) : snapshot_voters[i].who = who}
    IN  IF S = {} THEN None ELSE Some((CHOOSE i \in S : \A j \in S : i <= j) - 1)
\* targets.iter().position(|x| x == who)
target_index(snapshot_targets, who) ==
    LET S == {i \in 1..Len(snapshot_targets) : snapshot_targets[i] = who}
    IN  IF S = {} THEN None ELSE Some((CHOOSE i \in S : \A j \in S : i <= j) - 1)

\* one arm of the match of from_assignment: the entry pushed for an
\* assignment of 1..LIMIT targets
AssignmentIntoEntry(a, sv, st) ==
    LET d == a.distribution
        k == Len(d)
    IN  IF k > LIMIT THEN Err("CompactTargetOverflow")
        ELSE IF \/ ~voter_index(sv, a.who).some
                \/ \E i \in 1..k : ~target_index(st, d[i].t).some
        THEN Err("CompactInvalidIndex")
        ELSE Ok(Vote(voter_index(sv, a.who).val,
                     [i \in 1..(k - 1) |-> Edge(target_index(st, d[i].t).val, d[i].p)],
                     target_index(st, d[k].t).val))

RECURSIVE FromAssignmentFrom(_, _, _, _, _)
\* a variant that stores the share of the last target and drops the first
FromAssignmentFromKeepingLast(compact, assignments, i, sv, st) ==
    IF i > Len(assignments) THEN Ok(compact)
    ELSE IF Len(assignments[i].distribution) = 0
    THEN FromAssignmentFrom(compact, assignments, i + 1, sv, st)
    ELSE LET k == Len(assignments[i].distribution)
             Then(e) ==
                 IF ~e.ok THEN e
                 ELSE FromAssignmentFrom(
                        [compact EXCEPT ![k] = Append(@,
                            [e.val EXCEPT !.inners =
                                [j \in 1..(k - 1) |->
                                    Edge(e.val.inners[j].t,
                                         assignments[i].distribution[j + 1].p)]])],
                        assignments, i + 1, sv, st)
         IN  Then(AssignmentIntoEntry(assignments[i], sv, st))

\* the loop of from_assignment over the assignments from position i on
FromAssignmentFrom(compact, assignments, i, sv, st) ==
    IF i > Len(assignments) THEN Ok(compact)
    ELSE IF Len(assignments[i].distribution) = 0
    THEN FromAssignmentFrom(compact, assignments, i + 1, sv, st)
    ELSE LET k == Len(assignments[i].distribution)
             Then(e) ==
                 IF ~e.ok THEN e
                 ELSE FromAssignmentFrom([compact EXCEPT ![k] = Append(@, e.val)],
                                         assignments, i + 1, sv, st)
         IN  Then(AssignmentIntoEntry(assignments[i], sv, st))

from_assignment(assignments, sv, st) ==
    FromAssignmentFrom(DefaultCompact, assignments, 1, sv, st)

\* the sequence s without its element at position i
RemoveAt(s, i) == SubSeq(s, 1, i - 1) \o SubSeq(s, i + 1, Len(s))

\* remove_voter: the first entry of the first bucket that holds the voter
remove_voter(compact, to_remove) ==
    LET Holds(k) == {i \in 1..Len(compact[k]) : compact[k][i].voter = to_remove}
        K == {k \in 1..LIMIT : Holds(k) # {}}
    IN  IF K = {} THEN [compact |-> compact, removed |-> FALSE]
        ELSE LET k == CHOOSE x \in K : \A y \in K : x <= y
                 idx == CHOOSE i \in Holds(k) : \A j \in Holds(k) : i <= j
             IN  [compact |-> [compact EXCEPT ![k] = RemoveAt(@, idx)],
                  removed |-> TRUE]

(***************************************************************************)
(* Unsigned miner: trim_compact, maximum_compact_len,                      *)
(* prepare_election_result and mine_solution.                              *)
(***************************************************************************)
\* the voters with the largest stake first
SortedByStakeDescending(voters) ==
    LET rank(i) == Cardinality({j \in 1..Len(voters) :
                       \/ voters[j].stake > voters[i].stake
                       \/ voters[j].stake = voters[i].stake /\ j < i}) + 1
    IN  [r \in 1..Len(voters) |-> voters[CHOOSE i \in 1..Len(voters) : rank(i) = r]]

\* voters_sorted.sort_by_key(|(_, y)| *y): ascending stake, stable
SortedByStake(voters) ==
    LET rank(i) == Cardinality({j \in 1..Len(voters) :
                       \/ voters[j].stake < voters[i].stake
                       \/ voters[j].stake = voters[i].stake /\ j < i}) + 1
    IN  [r \in 1..Len(voters) |-> voters[CHOOSE i \in 1..Len(voters) : rank(i) = r]]

RECURSIVE TrimLoop(_, _, _, _, _, _)
\* the for loop of trim_compact from position i of voters_sorted on
TrimLoop(compact, voters_sorted, i, removed, to_remove, voters) ==
    IF i > Len(voters_sorted) THEN Ok(compact)
    ELSE LET Step(maybe_index) ==
                 IF ~maybe_index.some THEN Err("SnapshotUnAvailable")
                 ELSE LET Count(r) ==
                              IF removed + (IF r.removed THEN 1 ELSE 0) >= to_remove
                              THEN Ok(r.compact)
                              ELSE TrimLoop(r.compact, voters_sorted, i + 1,
                                            removed + (IF r.removed THEN 1 ELSE 0),
                                            to_remove, voters)
                      IN  Count(remove_voter(compact, maybe_index.val))
         IN  Step(voter_index(voters, voters_sorted[i].who))

trim_compact(maximum_allowed_voters, compact, sv) ==
    IF CompactLen(compact) > maximum_allowed_voters
    THEN IF ~sv.some THEN Err("SnapshotUnAvailable")
         ELSE TrimLoop(compact, SortedByStake(sv.val), 1, 0,
                       CompactLen(compact) - maximum_allowed_voters, sv.val)
    ELSE Ok(compact)

\* WeightInfo for (): every weight is Default::default()
SubmitUnsignedWeight == 0

\* the closure weight_with of maximum_compact_len::<W>: it ignores the number
\* of voters and returns W::submit_unsigned(); W is that weight
weight_with(W, voters) == W

WitnessData(voters, targets) == [voters |-> voters, targets |-> targets]
DefaultWitnessData == WitnessData(0, 0)

\* the closure next_voters of maximum_compact_len
next_voters(current_weight, voters, step, max_voters, max_weight) ==
    IF current_weight < max_weight
    THEN IF voters + step < max_voters THEN Ok(voters + step) ELSE Err(<<>>)
    ELSE IF current_weight > max_weight
    THEN IF voters >= step THEN Ok(voters - step) ELSE Err(<<>>)
    ELSE Ok(voters)

RECURSIVE SearchLoop(_, _, _, _, _, _)
\* the binary search loop; returned is TRUE when the loop returns the value
SearchLoop(W, voters, step, current_weight, max_voters, max_weight) ==
    IF step = 0 THEN [returned |-> FALSE, voters |-> voters]
    ELSE LET Arm(n) ==
                 IF n.ok /\ n.val # voters
                 THEN SearchLoop(W, n.val, step \div 2, weight_with(W, n.val),
                                 max_voters, max_weight)
                 ELSE IF ~n.ok THEN [returned |-> FALSE, voters |-> voters]
                 ELSE [returned |-> TRUE, voters |-> n.val]
         IN  Arm(next_voters(current_weight, voters, step, max_voters, max_weight))

RECURSIVE GrowLoop(_, _, _, _)
GrowLoop(W, voters, max_voters, max_weight) ==
    IF voters + 1 <= max_voters /\ weight_with(W, voters + 1) < max_weight
    THEN GrowLoop(W, voters + 1, max_voters, max_weight) ELSE voters

RECURSIVE ShrinkLoop(_, _, _)
ShrinkLoop(W, voters, max_weight) ==
    IF voters >= 1 /\ weight_with(W, voters) > max_weight
    THEN ShrinkLoop(W, voters - 1, max_weight) ELSE voters

\* the final assertion of maximum_compact_len on the voters the loops end with
WeightAsserted(W, voters, witness, max_weight) ==
    IF ~(weight_with(W, Min2(voters, witness.voters)) <= max_weight)
    THEN Err("panic")
    ELSE Ok(Min2(voters, witness.voters))

\* Ok(the length), or Err("panic") when the final assertion fails
maximum_compact_len(W, winners_len, witness, max_weight) ==
    IF witness.voters < 1 THEN Ok(witness.voters)
    ELSE LET max_voters == Max2(witness.voters, 1)
             After(s) ==
                 IF s.returned THEN Ok(s.voters)
                 ELSE WeightAsserted(
                          W,
                          ShrinkLoop(W, GrowLoop(W, s.voters, max_voters, max_weight),
                                     max_weight),
                          witness, max_weight)
         IN  After(SearchLoop(W, max_voters, max_voters \div 2,
                              weight_with(W, max_voters), max_voters, max_weight))

\* seq_phragmen of the provider's data: every target wins and every voter
\* backs one target
SeqPhragmen(desired, targets, voters) ==
    LET a == into_assignment(CompactFull, voters, targets)
    IN  IF ~a.ok THEN Err(NposElectionError(a.err))
        ELSE Ok([winners |-> [i \in 1..Min2(desired, Len(targets)) |->
                                 <<targets[i], 0>>],
                 assignments |-> a.val])

\* sp_npos_elections::reduce: the assignments of SeqPhragmen have no cycle
reduce(staked) == staked

\* the stake of each edge as a share of the voter's total, the last share
\* taking the remainder
assignment_staked_to_ratio_normalized(staked) ==
    [i \in 1..Len(staked) |->
        LET d == staked[i].distribution
            n == Len(d)
            total == SeqSum([j \in 1..n |-> d[j].w], n)
            raw == [j \in 1..n |-> IF total = 0 THEN 0
                                   ELSE (d[j].w * PerU16One) \div total]
        IN  [who |-> staked[i].who,
             distribution |->
                [j \in 1..n |-> Edge(d[j].t,
                    IF j < n THEN raw[j]
                    ELSE SaturatingSub(PerU16One, SeqSum(raw, n - 1)))]]]

to_without_backing(winners) == [i \in 1..Len(winners) |-> winners[i][1]]

\* CompactSolution::score: the score of the supports the compact decodes to
CompactScore(compact, winners, voters, targets) ==
    LET Scored(supports) ==
            IF ~supports.ok THEN Err(NposElectionError(supports.err))
            ELSE Ok(evaluate(supports.val))
        Decoded(assignments) ==
            IF ~assignments.ok THEN Err(NposElectionError(assignments.err))
            ELSE Scored(to_supports(winners,
                     assignment_ratio_to_staked_normalized(assignments.val, voters)))
    IN  Decoded(into_assignment(compact, voters, targets))

\* maximum_allowed_voters is computed and not used: the compact is trimmed
\* to its own length
prepare_election_result(election_result, sv, st) ==
    IF ~sv.some \/ ~st.some THEN Err("SnapshotUnAvailable")
    ELSE LET maximum_allowed_voters ==
                 maximum_compact_len(SubmitUnsignedWeight, 0, DefaultWitnessData, 0).val
             Score(compact, s) ==
                 IF ~s.ok THEN s ELSE Ok(RawSolution(compact, s.val))
             Trimmed(compact) ==
                 IF ~compact.ok THEN compact
                 ELSE Score(compact.val,
                            CompactScore(compact.val,
                                         to_without_backing(election_result.winners),
                                         sv.val, st.val))
             Compacted(compact) ==
                 IF ~compact.ok THEN Err(NposElectionError(compact.err))
                 ELSE Trimmed(trim_compact(CompactLen(compact.val), compact.val, sv))
         IN  Compacted(from_assignment(
                 assignment_staked_to_ratio_normalized(
                     reduce(assignment_ratio_to_staked_normalized(
                                election_result.assignments, sv.val))),
                 sv.val, st.val))

\* the balancing iterations only tune the external solver
mine_solution(desired, sv, st) ==
    IF ~sv.some \/ ~st.some THEN Err("SnapshotUnAvailable")
    ELSE LET Prepared(r) ==
                 IF ~r.ok THEN r ELSE prepare_election_result(r.val, sv, st)
         IN  Prepared(SeqPhragmen(desired, st.val, sv.val))

(***************************************************************************)
(* Raw storage (frame_support::storage::unhashed over sp_io::storage) and  *)
(* the keys of storage::migration.  A key is a sequence of bytes; the      *)
(* storage is a function from the keys it holds to their values.           *)
(***************************************************************************)
\* TestExternalities::new_empty()
EmptyStorage == <<>>

\* key a comes before key b in the order of the trie: byte by byte, a proper
\* prefix before its extensions
KeyLess(a, b) ==
    \E i \in 1..(Len(b)) :
        /\ \A j \in 1..(i - 1) : j <= Len(a) /\ a[j] = b[j]
        /\ i > Len(a) \/ a[i] < b[i]

\* n.starts_with(prefix)
starts_with(n, prefix) ==
    Len(n) >= Len(prefix) /\ SubSeq(n, 1, Len(prefix)) = prefix

\* sp_io::storage::next_key: the smallest stored key after `key`
next_key(store, key) ==
    LET After == {k \in DOMAIN store : KeyLess(key, k)}
    IN  IF After = {} THEN None
        ELSE Some(CHOOSE k \in After : \A l \in After : k = l \/ KeyLess(k, l))

\* unhashed::put_raw
put_raw(store, key, value) ==
    [k \in DOMAIN store \cup {key} |-> IF k = key THEN value ELSE store[k]]

\* unhashed::kill
kill(store, key) == [k \in DOMAIN store \ {key} |-> store[k]]

\* no call of move_prefix has been made
NoMove == [pc |-> "idle", prefix |-> <<>>, to_prefix |-> <<>>,
           previous_key |-> <<>>, at_call |-> EmptyStorage, moved |-> 0]

(***************************************************************************)
(* State.                                                                  *)
(***************************************************************************)
VARIABLES
    cfg,                \* the runtime's configuration (Trait constants)
    now,                \* System::block_number()
    currentPhase,       \* storage CurrentPhase
    round,              \* storage Round
    signedSubmissions,  \* storage SignedSubmissions
    queuedSolution,     \* storage QueuedSolution (Option<ReadySolution>)
    snapshotVoters,     \* storage SnapshotVoters (Option)
    snapshotTargets,    \* storage SnapshotTargets (Option)
    desiredTargets,     \* storage DesiredTargets
    balances,           \* the Currency: account -> (free, reserved)
    offchainHead,       \* offchain db OFFCHAIN_HEAD_DB of the node (Option)
    pool,               \* the node's transaction pool: the calls submitted to it
    raw,                \* the raw key-value storage of the externalities
    iter,               \* the call of move_prefix in progress and its PrefixIterator
    ret                 \* the last call, its arguments and what it returned

vars == <<cfg, now, currentPhase, round, signedSubmissions, queuedSolution,
          snapshotVoters, snapshotTargets, desiredTargets, balances,
          offchainHead, pool, raw, iter, ret>>

\* everything the pallet and the currency persist
storage == <<currentPhase, round, signedSubmissions, queuedSolution,
             snapshotVoters, snapshotTargets, desiredTargets, balances>>

PhaseOff == [tag |-> "Off", active |-> FALSE, at |-> 0]
PhaseSigned == [tag |-> "Signed", active |-> FALSE, at |-> 0]
\* an unsigned phase that is active when a signed solution was found
PhaseUnsignedActiveIfFound(active, at) ==
    [tag |-> "Unsigned", active |-> ~active, at |-> at]
PhaseUnsigned(active, at) == [tag |-> "Unsigned", active |-> active, at |-> at]

\* a test that also takes the unsigned phase for the signed one
is_signed_or_unsigned(p) == p.tag \in {"Signed", "Unsigned"}
\* a test that also takes the phase Off for the signed one
is_signed_or_off(p) == p.tag \in {"Signed", "Off"}
is_signed(p) == p.tag = "Signed"
is_unsigned(p) == p.tag = "Unsigned"
\* open at any block of an active unsigned phase
is_unsigned_open_at_any_block(p, at) == p.tag = "Unsigned" /\ p.active

is_unsigned_open_at(p, at) == p.tag = "Unsigned" /\ p.active /\ p.at = at
\* open as soon as the phase is Unsigned, whatever its active flag
is_unsigned_open_ignoring_active(p) == p.tag = "Unsigned"

is_unsigned_open(p) == p.tag = "Unsigned" /\ p.active
is_off(p) == p.tag = "Off"

NoSolution == RawSolution(DefaultCompact, <<0, 0, 0>>)
NoValue == [supports |-> <<>>, compute |-> "None"]

Ret(op, result, who, solution) ==
    [op |-> op, result |-> result, who |-> who, solution |-> solution,
     checked |-> <<>>, unprocessed |-> <<>>, evicted |-> <<>>, value |-> NoValue,
     n |-> 0, arg |-> <<>>, out |-> <<>>]

Thresholds == {0, 50}
Configs ==
    [SignedPhase : {2}, UnsignedPhase : {2}, Cycle : {6},
     MaxSignedSubmissions : 0..MaxCapacity,
     SolutionImprovementThreshold : Thresholds]

\* the state after ExtBuilder::build, whatever the configuration
Genesis ==
    /\ now = 0
    /\ currentPhase = PhaseOff
    /\ round = 0
    /\ signedSubmissions = <<>>
    /\ queuedSolution = None
    /\ snapshotVoters = None
    /\ snapshotTargets = None
    /\ desiredTargets = 0
    /\ balances = [a \in Accounts |-> [free |-> GenesisBalance[a], reserved |-> 0]]
    /\ offchainHead = None
    /\ pool = <<>>
    /\ raw = EmptyStorage
    /\ iter = NoMove
    /\ ret = Ret("genesis", "Ok", 0, NoSolution)

Init == cfg \in Configs /\ Genesis

(***************************************************************************)
(* on_initialize(now) for the next block, with start_signed_phase and      *)
(* finalize_signed_phase.                                                  *)
(***************************************************************************)
\* a start that leaves the voters of the previous snapshot in place
start_signed_phase_keeping_voters ==
    /\ snapshotTargets' = Some(Targets)
    /\ snapshotVoters' = snapshotVoters
    /\ desiredTargets' = ProviderDesiredTargets

\* start_signed_phase: put what the data provider returns into the snapshot
start_signed_phase ==
    /\ snapshotTargets' = Some(Targets)
    /\ snapshotVoters' = Some(Voters)
    /\ desiredTargets' = ProviderDesiredTargets

\* `last` is the last block on_initialize is run for
OnInitializeUntil(last) ==
    /\ now < last
    /\ LET n == now + 1
           next_election == Max2(next_election_prediction(cfg.Cycle, n), n)
           signed_deadline == cfg.SignedPhase + cfg.UnsignedPhase
           unsigned_deadline == cfg.UnsignedPhase
           remaining == next_election - n
       IN  /\ now' = n
           /\ IF is_off(currentPhase) /\ remaining <= signed_deadline
                                      /\ remaining > unsigned_deadline
              THEN /\ currentPhase' = PhaseSigned
                   /\ round' = round + 1
                   /\ start_signed_phase
                   /\ ret' = Ret("on_initialize", "Ok", 0, NoSolution)
                   /\ UNCHANGED <<signedSubmissions, queuedSolution, balances>>
              ELSE IF is_signed(currentPhase) /\ remaining <= unsigned_deadline
                                              /\ remaining > 0
              THEN \E f \in {finalize_signed_phase(signedSubmissions, balances,
                                desiredTargets, snapshotVoters, snapshotTargets)} :
                       \* <SignedSubmissions<T>>::take()
                       /\ signedSubmissions' = <<>>
                       /\ queuedSolution' = IF f.found THEN f.queued ELSE queuedSolution
                       /\ balances' = f.bal
                       /\ currentPhase' = PhaseUnsigned(~f.found, n)
                       /\ ret' = [Ret("on_initialize",
                                      IF f.panic THEN "panic" ELSE "Ok", 0, NoSolution)
                                    EXCEPT !.checked = f.checked,
                                           !.unprocessed = f.unprocessed]
                       /\ UNCHANGED <<round, snapshotVoters, snapshotTargets,
                                      desiredTargets>>
              ELSE /\ ret' = Ret("on_initialize", "Ok", 0, NoSolution)
                   /\ UNCHANGED storage
    /\ UNCHANGED <<cfg, offchainHead, pool, raw, iter>>

OnInitialize == OnInitializeUntil(MaxBlock)

(***************************************************************************)
(* submit(origin = Signed(who), solution)                                  *)
(***************************************************************************)
\* a submit that stores the queue before it reserves the deposit
SubmitPutFirst(who, solution) ==
    /\ IF ~is_signed(currentPhase)
       THEN /\ ret' = Ret("submit", "EarlySubmission", who, solution)
            /\ UNCHANGED storage
       ELSE \E ins \in {insert_submission(who, signedSubmissions, solution,
                            cfg.MaxSignedSubmissions, cfg.SolutionImprovementThreshold)} :
                IF ins.panic
                THEN /\ ret' = Ret("submit", "panic", who, solution)
                     /\ UNCHANGED storage
                ELSE IF ~ins.outcome.some
                THEN /\ ret' = Ret("submit", "QueueFull", who, solution)
                     /\ UNCHANGED storage
                ELSE LET index == ins.outcome.val
                         deposit == ins.queue[index + 1].deposit
                         r == reserve(balances, who, deposit)
                     IN  IF ~r.ok
                         THEN /\ ret' = Ret("submit", "CannotPayDeposit", who, solution)
                              /\ signedSubmissions' = ins.queue
                              /\ UNCHANGED <<currentPhase, round, queuedSolution,
                                             snapshotVoters, snapshotTargets,
                                             desiredTargets, balances>>
                         ELSE IF ~(Len(ins.queue) <= cfg.MaxSignedSubmissions)
                         THEN /\ ret' = Ret("submit", "panic", who, solution)
                              /\ UNCHANGED storage
                         ELSE /\ balances' = r.val
                              /\ signedSubmissions' = ins.queue
                              /\ ret' = [Ret("submit", "Ok", who, solution)
                                           EXCEPT !.evicted = ins.evicted]
                              /\ UNCHANGED <<currentPhase, round, queuedSolution,
                                             snapshotVoters, snapshotTargets,
                                             desiredTargets>>
    /\ UNCHANGED <<cfg, now, offchainHead, pool, raw, iter>>

\* ensure the phase, insert_submission, reserve the deposit, put the queue
Submit(who, solution) ==
    /\ IF ~is_signed(currentPhase)
       THEN /\ ret' = Ret("submit", "EarlySubmission", who, solution)
            /\ UNCHANGED storage
       ELSE \E ins \in {insert_submission(who, signedSubmissions, solution,
                            cfg.MaxSignedSubmissions, cfg.SolutionImprovementThreshold)} :
                IF ins.panic
                THEN /\ ret' = Ret("submit", "panic", who, solution)
                     /\ UNCHANGED storage
                ELSE IF ~ins.outcome.some
                THEN /\ ret' = Ret("submit", "QueueFull", who, solution)
                     /\ UNCHANGED storage
                ELSE LET index == ins.outcome.val
                         deposit == ins.queue[index + 1].deposit
                         r == reserve(balances, who, deposit)
                     IN  IF ~r.ok
                         THEN /\ ret' = Ret("submit", "CannotPayDeposit", who, solution)
                              /\ UNCHANGED storage
                         ELSE IF ~(Len(ins.queue) <= cfg.MaxSignedSubmissions)
                         THEN /\ ret' = Ret("submit", "panic", who, solution)
                              /\ UNCHANGED storage
                         ELSE /\ balances' = r.val
                              /\ signedSubmissions' = ins.queue
                              /\ ret' = [Ret("submit", "Ok", who, solution)
                                           EXCEPT !.evicted = ins.evicted]
                              /\ UNCHANGED <<currentPhase, round, queuedSolution,
                                             snapshotVoters, snapshotTargets,
                                             desiredTargets>>
    /\ UNCHANGED <<cfg, now, offchainHead, pool, raw, iter>>

(***************************************************************************)
(* pre_dispatch_checks and submit_unsigned(origin, solution); origin 0 is  *)
(* Origin::none(), any other origin is Origin::signed(origin).             *)
(***************************************************************************)
\* a check that lets an unsigned phase pass whether or not it is active
pre_dispatch_checks_ignoring_active(solution, phase, queued, threshold) ==
    IF ~(phase.tag = "Unsigned") THEN Err("EarlySubmission")
    ELSE IF ~(IF ~queued.some THEN TRUE
              ELSE is_score_better(solution.score, queued.val.score, threshold))
    THEN Err("WeakSubmission")
    ELSE Ok(TRUE)

\* a check that accepts any score better than the queued one, by any margin
pre_dispatch_checks_ignoring_threshold(solution, phase, queued, threshold) ==
    IF ~is_unsigned_open(phase) THEN Err("EarlySubmission")
    ELSE IF ~(IF ~queued.some THEN TRUE
              ELSE is_score_better(solution.score, queued.val.score, 0))
    THEN Err("WeakSubmission")
    ELSE Ok(TRUE)

pre_dispatch_checks(solution, phase, queued, threshold) ==
    IF ~is_unsigned_open(phase) THEN Err("EarlySubmission")
    ELSE IF ~(IF ~queued.some THEN TRUE
              ELSE is_score_better(solution.score, queued.val.score, threshold))
    THEN Err("WeakSubmission")
    ELSE Ok(TRUE)

\* a submit_unsigned that returns the failure of feasibility_check as an error
SubmitUnsignedReturningError(origin, solution) ==
    /\ IF origin # 0
       THEN /\ ret' = Ret("submit_unsigned", "BadOrigin", origin, solution)
            /\ UNCHANGED storage
       ELSE LET pre == pre_dispatch_checks(solution, currentPhase, queuedSolution,
                                           cfg.SolutionImprovementThreshold)
            IN  IF ~pre.ok
                THEN /\ ret' = Ret("submit_unsigned", pre.err, origin, solution)
                     /\ UNCHANGED storage
                ELSE \E ready \in {feasibility_check(solution, "Unsigned", desiredTargets,
                                                       snapshotVoters, snapshotTargets)} :
                         IF ~ready.ok
                         \* the error of the feasibility check is returned to the caller
                         THEN /\ ret' = Ret("submit_unsigned", "InvalidSolution", origin, solution)
                              /\ UNCHANGED storage
                         ELSE /\ queuedSolution' = Some(ready.val)
                              /\ ret' = Ret("submit_unsigned", "Ok", origin, solution)
                              /\ UNCHANGED <<currentPhase, round, signedSubmissions,
                                             snapshotVoters, snapshotTargets,
                                             desiredTargets, balances>>
    /\ UNCHANGED <<cfg, now, offchainHead, pool, raw, iter>>

SubmitUnsigned(origin, solution) ==
    /\ IF origin # 0
       THEN /\ ret' = Ret("submit_unsigned", "BadOrigin", origin, solution)
            /\ UNCHANGED storage
       ELSE LET pre == pre_dispatch_checks(solution, currentPhase, queuedSolution,
                                           cfg.SolutionImprovementThreshold)
            IN  IF ~pre.ok
                THEN /\ ret' = Ret("submit_unsigned", pre.err, origin, solution)
                     /\ UNCHANGED storage
                ELSE \E ready \in {feasibility_check(solution, "Unsigned", desiredTargets,
                                                       snapshotVoters, snapshotTargets)} :
                         IF ~ready.ok
                         \* .expect(..) panics: the call and its block are dropped
                         THEN /\ ret' = Ret("submit_unsigned", "panic", origin, solution)
                              /\ UNCHANGED storage
                         ELSE /\ queuedSolution' = Some(ready.val)
                              /\ ret' = Ret("submit_unsigned", "Ok", origin, solution)
                              /\ UNCHANGED <<currentPhase, round, signedSubmissions,
                                             snapshotVoters, snapshotTargets,
                                             desiredTargets, balances>>
    /\ UNCHANGED <<cfg, now, offchainHead, pool, raw, iter>>

(***************************************************************************)
(* ElectionProvider::elect with onchain_fallback.                          *)
(***************************************************************************)
\* a fallback that is never available
onchain_fallback_unavailable(desired, sv, st) ==
    Err("SnapshotUnAvailable")

onchain_fallback(desired, sv, st) ==
    IF ~sv.some THEN Err("SnapshotUnAvailable")
    ELSE IF ~st.some THEN Err("SnapshotUnAvailable")
    ELSE Ok(OnChainSupports(desired, st.val, sv.val))

\* an elect that kills the voters of the snapshot only
ElectKeepingTargets ==
    /\ \E f \in {onchain_fallback(desiredTargets, snapshotVoters, snapshotTargets)} :
       \E r \in {IF queuedSolution.some
                  THEN Ok([supports |-> queuedSolution.val.supports,
                           compute |-> queuedSolution.val.compute])
                  ELSE IF f.ok THEN Ok([supports |-> f.val, compute |-> "OnChain"])
                  ELSE f} :
           IF r.ok
           THEN /\ currentPhase' = PhaseOff
                /\ snapshotVoters' = None
                /\ snapshotTargets' = snapshotTargets
                /\ ret' = [Ret("elect", "Ok", 0, NoSolution) EXCEPT !.value = r.val]
                /\ UNCHANGED <<round, signedSubmissions, queuedSolution,
                               desiredTargets, balances>>
           ELSE /\ ret' = Ret("elect", r.err, 0, NoSolution)
                /\ UNCHANGED storage
    /\ UNCHANGED <<cfg, now, offchainHead, pool, raw, iter>>

\* the queued solution or else the fallback; on Ok the phase is put to Off
\* and the snapshot is killed
Elect ==
    /\ \E f \in {onchain_fallback(desiredTargets, snapshotVoters, snapshotTargets)} :
       \E r \in {IF queuedSolution.some
                  THEN Ok([supports |-> queuedSolution.val.supports,
                           compute |-> queuedSolution.val.compute])
                  ELSE IF f.ok THEN Ok([supports |-> f.val, compute |-> "OnChain"])
                  ELSE f} :
           IF r.ok
           THEN /\ currentPhase' = PhaseOff
                /\ snapshotVoters' = None
                /\ snapshotTargets' = None
                /\ ret' = [Ret("elect", "Ok", 0, NoSolution) EXCEPT !.value = r.val]
                /\ UNCHANGED <<round, signedSubmissions, queuedSolution,
                               desiredTargets, balances>>
           ELSE /\ ret' = Ret("elect", r.err, 0, NoSolution)
                /\ UNCHANGED storage
    /\ UNCHANGED <<cfg, now, offchainHead, pool, raw, iter>>

Next ==
    \/ OnInitialize
    \/ \E who \in Accounts, solution \in SignedInputs : Submit(who, solution)
    \/ \E origin \in {0, 99}, solution \in UnsignedInputs : SubmitUnsigned(origin, solution)
    \/ Elect

Spec == Init /\ [][Next]_vars

(***************************************************************************)
(* The offchain dedup check of the unsigned module.                        *)
(***************************************************************************)
OFFCHAIN_REPEAT == 5

\* the closure handed to storage.mutate: Ok(the new head) or Err(reason)
\* a repeat window that excludes its last tick head + OFFCHAIN_REPEAT
set_check_offchain_execution_status_exclusive(n, maybe_head) ==
    IF maybe_head.some /\ n < maybe_head.val THEN Err("fork.")
    ELSE IF /\ maybe_head.some
            /\ n >= maybe_head.val /\ n < maybe_head.val + OFFCHAIN_REPEAT
         THEN Err("recently executed.")
    ELSE Ok(n)

\* a check that takes a tick below the marker for a new tick
set_check_offchain_execution_status_accepting_forks(n, maybe_head) ==
    IF /\ maybe_head.some
       /\ n >= maybe_head.val /\ n <= maybe_head.val + OFFCHAIN_REPEAT
    THEN Err("recently executed.")
    ELSE Ok(n)

set_check_offchain_execution_status(n, maybe_head) ==
    IF maybe_head.some /\ n < maybe_head.val THEN Err("fork.")
    ELSE IF /\ maybe_head.some
            /\ n >= maybe_head.val /\ n <= maybe_head.val + OFFCHAIN_REPEAT
         THEN Err("recently executed.")
    ELSE Ok(n)

\* a call of set_check_offchain_execution_status(n) on the node; mutate
\* writes the head only when the closure returns Ok
SetCheckOffchainExecutionStatus(n) ==
    /\ \E r \in {set_check_offchain_execution_status(n, offchainHead)} :
         /\ offchainHead' = IF r.ok THEN Some(r.val) ELSE offchainHead
         /\ ret' = [Ret("set_check_offchain_execution_status",
                        IF r.ok THEN "Ok" ELSE r.err, 0, NoSolution)
                      EXCEPT !.n = n]
    /\ UNCHANGED storage
    /\ UNCHANGED <<cfg, now, pool, raw, iter>>

\* offchain_worker(n) on the node: the dedup check, then, when the unsigned
\* phase is open at n, mine_and_submit, whose error is only logged
OffchainWorker(n) ==
    /\ \E r \in {set_check_offchain_execution_status(n, offchainHead)} :
         /\ offchainHead' = IF r.ok THEN Some(r.val) ELSE offchainHead
         /\ IF r.ok /\ is_unsigned_open_at(currentPhase, n)
            THEN \E m \in {mine_solution(desiredTargets, snapshotVoters,
                                          snapshotTargets)} :
                     /\ pool' = IF m.ok THEN Append(pool, m.val) ELSE pool
                     /\ ret' = [Ret("offchain_worker",
                                    IF m.ok THEN "Submitted" ELSE "Error", 0,
                                    IF m.ok THEN m.val ELSE NoSolution)
                                  EXCEPT !.n = n]
            ELSE /\ pool' = pool
                 /\ ret' = [Ret("offchain_worker", "Skipped", 0, NoSolution)
                              EXCEPT !.n = n]
    /\ UNCHANGED storage
    /\ UNCHANGED <<cfg, now, raw, iter>>

(***************************************************************************)
(* Runs under the phase lengths of the mock runtime: SignedPhase 10,       *)
(* UnsignedPhase 5, an election every 20 blocks, up to MaxTick blocks,     *)
(* with the dedup check and the offchain worker called for any block       *)
(* number, and the calls of the pool dispatched.                           *)
(***************************************************************************)
MockConfigs ==
    [SignedPhase : {10}, UnsignedPhase : {5}, Cycle : {20},
     MaxSignedSubmissions : {5}, SolutionImprovementThreshold : {0}]

InitMock == cfg \in MockConfigs /\ Genesis

\* the block numbers the dedup check is called with: from the block the
\* unsigned phase opens at (roll_to(15) in ocw_check_prevent_duplicate) on
FirstCheckTick == 15
CheckTicks == FirstCheckTick..MaxTick

OnInitializeMock == OnInitializeUntil(MaxTick)

NextMock ==
    \/ OnInitializeMock
    \/ Submit(99, SolFull)
    \/ \E solution \in {SolFull, SolSplit} \cup {pool[i] : i \in DOMAIN pool} :
           SubmitUnsigned(0, solution)
    \/ Elect
    \/ \E n \in CheckTicks : SetCheckOffchainExecutionStatus(n)
    \/ \E n \in CheckTicks : OffchainWorker(n)

SpecMock == InitMock /\ [][NextMock]_vars

(***************************************************************************)
(* Direct calls of the functions of the pallet, as the tests of the pallet *)
(* make them, in the states on_initialize leads to.                        *)
(***************************************************************************)
\* solution with component i of its claimed score changed by d
Perturbed(solution, i, d) ==
    RawSolution(solution.compact, [solution.score EXCEPT ![i] = @ + d])

\* a voter index outside the snapshot
SolBadVoter == RawSolution(CompactOf(<<Vote(1, <<>>, 0), Vote(7, <<>>, 1)>>, <<>>),
                           <<30, 10, 500>>)
\* a target index outside the snapshot
SolBadTarget == RawSolution(CompactOf(<<Vote(1, <<>>, 0), Vote(2, <<>>, 5)>>, <<>>),
                            <<30, 10, 500>>)
\* voter 10 backs target 20, which it did not nominate
SolBadVote == RawSolution(CompactOf(<<Vote(1, <<>>, 1), Vote(2, <<>>, 1), Vote(0, <<>>, 0)>>,
                                    <<>>),
                          <<40, 10, 1000>>)
\* the explicit share of voter 1 is the whole
SolOverflow == RawSolution(CompactOf(<<Vote(1, <<>>, 0), Vote(2, <<>>, 1)>>,
                                     <<Vote(0, <<Edge(0, PerU16One)>>, 1)>>),
                           <<40, 20, 800>>)

\* a voter index outside the snapshot in an entry whose explicit share is the whole
SolBadVoterOverflow ==
    RawSolution(CompactOf(<<Vote(1, <<>>, 0), Vote(2, <<>>, 1)>>,
                          <<Vote(7, <<Edge(0, PerU16One)>>, 1)>>),
                <<30, 10, 500>>)

FeasibleInputs == {SolFull, SolSelf, SolSplit}
CheckInputs ==
    FeasibleInputs
        \cup {Perturbed(b, i, d) : b \in FeasibleInputs, i \in 1..3, d \in {-1, 1}}
        \cup {SolDefault35, SolBadVoter, SolBadTarget, SolBadVote, SolOverflow,
              SolBadVoterOverflow}

\* a feasibility check that stores the solution it accepts
FeasibilityCheckStoring(solution, compute) ==
    /\ \E r \in {feasibility_check(solution, compute, desiredTargets,
                                   snapshotVoters, snapshotTargets)} :
         /\ ret' = [Ret("feasibility_check", IF r.ok THEN "Ok" ELSE r.err, 0, solution)
                      EXCEPT !.value = IF r.ok THEN r.val
                                       ELSE [NoValue EXCEPT !.compute = compute]]
         /\ queuedSolution' = IF r.ok THEN Some(r.val) ELSE queuedSolution
    /\ UNCHANGED <<currentPhase, round, signedSubmissions, snapshotVoters,
                   snapshotTargets, desiredTargets, balances>>
    /\ UNCHANGED <<cfg, now, offchainHead, pool, raw, iter>>

\* feasibility_check(solution, compute) called on its own
FeasibilityCheck(solution, compute) ==
    /\ \E r \in {feasibility_check(solution, compute, desiredTargets,
                                   snapshotVoters, snapshotTargets)} :
         ret' = [Ret("feasibility_check", IF r.ok THEN "Ok" ELSE r.err, 0, solution)
                   EXCEPT !.value = IF r.ok THEN r.val
                                    ELSE [NoValue EXCEPT !.compute = compute]]
    /\ UNCHANGED storage
    /\ UNCHANGED <<cfg, now, offchainHead, pool, raw, iter>>

\* a snapshot of LIMIT targets, so that an assignment of every fan-out exists
WideTargets == [i \in 1..LIMIT |-> 100 + i]

\* the shares of a distribution over k targets, summing to PerU16::one():
\* "even" gives every target a positive share, "zero_first" gives the first
\* target nothing, "zero_last" gives the last target nothing
Shares(k, variant) ==
    [i \in 1..k |->
        IF variant = "even"
        THEN IF i < k THEN PerU16One \div k ELSE PerU16One - (k - 1) * (PerU16One \div k)
        ELSE IF variant = "zero_first"
        THEN IF k = 1 THEN PerU16One
             ELSE IF i = 1 THEN 0
             ELSE IF i < k THEN 1 ELSE PerU16One - (k - 2)
        ELSE IF k = 1 THEN PerU16One
             ELSE IF i = 1 THEN PerU16One - (k - 2)
             ELSE IF i < k THEN 1 ELSE 0]

\* Assignment { who, distribution } of voter who over the first k targets
Fanout(who, k, variant) ==
    [who |-> who,
     distribution |-> [i \in 1..k |-> Edge(WideTargets[i], Shares(k, variant)[i])]]

ShareVariants == {"even", "zero_first", "zero_last"}

\* lists of assignments in which each voter of the snapshot appears at most
\* once: every fan-out 1..LIMIT on its own, and lists of mixed fan-out
AssignmentInputs ==
    {<<Fanout(1, k, v)>> : k \in 1..LIMIT, v \in ShareVariants}
        \cup {<<Fanout(1, 1, "even"), Fanout(10, 2, "even"), Fanout(20, k, "even")>> :
                  k \in {3, LIMIT}}
        \cup {<<Fanout(1, LIMIT, "even"), Fanout(10, 1, "even"), Fanout(20, 2, v)>> :
                  v \in ShareVariants}

\* from_assignment followed by into_assignment, with index and lookup
\* functions over the same voters and targets
RoundTrip(assignments) ==
    /\ \E c \in {from_assignment(assignments, Voters, WideTargets)} :
         ret' = [Ret("round_trip", IF c.ok THEN "Ok" ELSE c.err, 0,
                     IF c.ok THEN RawSolution(c.val, <<0, 0, 0>>) ELSE NoSolution)
                   EXCEPT !.arg = assignments,
                          !.out = IF c.ok THEN into_assignment(c.val, Voters, WideTargets)
                                  ELSE c]
    /\ UNCHANGED storage
    /\ UNCHANGED <<cfg, now, offchainHead, pool, raw, iter>>

\* the entries of a compact for the voters of a set, each with one target
\* (votes1) or two (votes2), in increasing or decreasing order of voter index
EntriesOf(S, descending) ==
    LET n == Cardinality(S)
        nth(r) == CHOOSE v \in S : Cardinality({w \in S : w < v}) = r - 1
    IN  [r \in 1..n |-> IF descending THEN nth(n + 1 - r) ELSE nth(r)]

SnapshotIndices == 0..(Len(Voters) - 1)

\* compacts as from_assignment builds them from assignments of the voters of
\* the snapshot: every voter in at most one entry
TrimInputs ==
    {CompactOf([i \in 1..Cardinality(S1) |-> Vote(EntriesOf(S1, d)[i], <<>>, 0)],
               [i \in 1..Cardinality(S2) |->
                   Vote(EntriesOf(S2, d)[i], <<Edge(0, PerU16One \div 2)>>, 1)]) :
        S1 \in SUBSET SnapshotIndices, S2 \in SUBSET SnapshotIndices, d \in BOOLEAN}

\* trim_compact(maximum_allowed_voters, compact, voter_index) as the miner
\* calls it: mine_solution has read the snapshot before
TrimCompact(maximum_allowed_voters, compact) ==
    /\ snapshotVoters.some
    /\ \A k \in 1..LIMIT : \A i, j \in DOMAIN compact[k] :
          compact[k][i].voter = compact[k][j].voter => i = j
    /\ \A k, l \in 1..LIMIT : \A i \in DOMAIN compact[k], j \in DOMAIN compact[l] :
          compact[k][i].voter = compact[l][j].voter => k = l
    /\ \E r \in {trim_compact(maximum_allowed_voters, compact, snapshotVoters)} :
         ret' = [Ret("trim_compact", IF r.ok THEN "Ok" ELSE r.err, 0,
                     RawSolution(compact, <<0, 0, 0>>))
                   EXCEPT !.n = maximum_allowed_voters, !.out = r]
    /\ UNCHANGED storage
    /\ UNCHANGED <<cfg, now, offchainHead, pool, raw, iter>>

FnConfigs ==
    [SignedPhase : {2}, UnsignedPhase : {2}, Cycle : {6},
     MaxSignedSubmissions : {MaxCapacity}, SolutionImprovementThreshold : {0}]

\* maximum_compact_len::<W>(0, witness, max_weight) called on its own, W being
\* a weight info whose submit_unsigned() is W
MaximumCompactLen(W, witness, max_weight) ==
    /\ ret' = [Ret("maximum_compact_len", "Ok", 0, NoSolution)
                EXCEPT !.arg = [W |-> W, witness |-> witness,
                                max_weight |-> max_weight],
                       !.out = maximum_compact_len(W, 0, witness, max_weight)]
    /\ UNCHANGED storage
    /\ UNCHANGED <<cfg, now, offchainHead, pool, raw, iter>>

InitFn == cfg \in FnConfigs /\ Genesis

NextFn ==
    \/ OnInitialize
    \/ Submit(99, SolSelf)
    \/ Elect
    \/ \E solution \in CheckInputs, compute \in {"Signed", "Unsigned"} :
           FeasibilityCheck(solution, compute)
    \/ \E W \in 0..MaxWeight, voters \in 0..MaxWitnessVoters,
          max_weight \in 0..MaxWeight :
           MaximumCompactLen(W, WitnessData(voters, Len(Targets)), max_weight)

SpecFn == InitFn /\ [][NextFn]_vars

\* the explicit shares of an entry of k targets: "even" and "almost" leave
\* the last target a share, "exact" sums to one, "over" to more than one
ExplicitShares(k, variant) ==
    [i \in 1..(k - 1) |->
        IF variant = "even" THEN PerU16One \div k
        ELSE IF variant = "over" THEN PerU16One
        ELSE IF i > 1 THEN 1
        ELSE IF variant = "exact" THEN PerU16One - (k - 2)
        ELSE PerU16One - (k - 1)]

\* the compact that holds one entry of k targets, with the indices given
CompactWith(voter, k, variant, first, last) ==
    [DefaultCompact EXCEPT ![k] =
        <<Vote(voter,
               [i \in 1..(k - 1) |->
                   Edge(IF i = 1 THEN first ELSE i - 1, ExplicitShares(k, variant)[i])],
               last)>>]

ExplicitVariants == {"even", "almost", "exact", "over"}

\* compacts as a submitter can send them: an entry of every fan-out from 2
\* with every kind of shares, and entries whose explicit shares sum to one
\* together with an index that is in no snapshot
ConversionInputs ==
    {CompactWith(0, k, v, 0, k - 1) : k \in 2..LIMIT, v \in ExplicitVariants}
        \cup {CompactWith(7, k, "exact", 0, k - 1) : k \in {2, 3}}
        \cup {CompactWith(0, k, "exact", LIMIT, k - 1) : k \in {2, 3}}
        \cup {CompactWith(0, k, "exact", 0, LIMIT) : k \in {2, 3}}
        \cup {[CompactWith(0, 2, "exact", 0, 1) EXCEPT ![1] = <<Vote(7, <<>>, 0)>>]}

\* into_assignment(voter_at, target_at) called on its own
IntoAssignment(compact) ==
    /\ ret' = [Ret("into_assignment", "Ok", 0, RawSolution(compact, <<0, 0, 0>>))
                EXCEPT !.out = into_assignment(compact, Voters, WideTargets)]
    /\ UNCHANGED storage
    /\ UNCHANGED <<cfg, now, offchainHead, pool, raw, iter>>

\* the conversions and the trimming of compact solutions, called on their own
\* on what the blocks leave in storage
NextCompact ==
    \/ OnInitialize
    \/ \E assignments \in AssignmentInputs : RoundTrip(assignments)
    \/ \E maximum_allowed_voters \in 0..Len(Voters), compact \in TrimInputs :
           TrimCompact(maximum_allowed_voters, compact)
    \/ \E compact \in ConversionInputs : IntoAssignment(compact)

SpecCompact == InitFn /\ [][NextCompact]_vars

(***************************************************************************)
(* storage::migration::move_prefix over the raw storage.  The body of the  *)
(* for loop runs once for each item of the draining PrefixIterator; the    *)
(* position of the call is kept in iter.                                   *)
(***************************************************************************)
Bytes == {0, 1}
KeysOfLen(n) == [1..n -> Bytes]
\* the keys put into the storage before the call
StoredKeys == UNION {KeysOfLen(n) : n \in 1..(MaxKeyLen - 1)}
RawValues == {1, 2}
\* the prefixes handed to move_prefix
Prefixes == UNION {KeysOfLen(n) : n \in 1..2}

\* unhashed::put_raw(key, value) on its own, as the tests fill the storage
PutRaw(key, value) ==
    /\ iter.pc = "idle"
    /\ Cardinality(DOMAIN raw \cup {key}) <= MaxStored
    /\ raw' = put_raw(raw, key, value)
    /\ ret' = Ret("put_raw", "Ok", 0, NoSolution)
    /\ UNCHANGED storage
    /\ UNCHANGED <<cfg, now, offchainHead, pool, iter>>

\* move_prefix(from_prefix, to_prefix) up to the first item of the iterator
MovePrefix(from_prefix, to_prefix) ==
    /\ iter.pc = "idle"
    /\ iter' = IF from_prefix = to_prefix
               THEN [NoMove EXCEPT !.pc = "returned", !.prefix = from_prefix,
                                   !.to_prefix = to_prefix, !.at_call = raw]
               ELSE [pc |-> "iterating", prefix |-> from_prefix,
                     to_prefix |-> to_prefix, previous_key |-> from_prefix,
                     at_call |-> raw, moved |-> 0]
    /\ ret' = Ret("move_prefix", "Ok", 0, NoSolution)
    /\ UNCHANGED storage
    /\ UNCHANGED <<cfg, now, offchainHead, pool, raw>>

\* PrefixIterator::next with drain, and the body of the for loop
MovePrefixNext ==
    /\ iter.pc = "iterating"
    /\ \E maybe_next \in {next_key(raw, iter.previous_key)} :
         IF maybe_next.some /\ starts_with(maybe_next.val, iter.prefix)
         THEN LET next == maybe_next.val
                  value == raw[next]
                  key == SubSeq(next, Len(iter.prefix) + 1, Len(next))
                  full_key == iter.to_prefix \o key
              IN  /\ Len(full_key) <= MaxKeyLen
                  /\ raw' = put_raw(kill(raw, next), full_key, value)
                  /\ iter' = [iter EXCEPT !.previous_key = next, !.moved = @ + 1]
         ELSE /\ iter' = [iter EXCEPT !.pc = "returned"]
              /\ raw' = raw
    /\ ret' = Ret("move_prefix", "Ok", 0, NoSolution)
    /\ UNCHANGED storage
    /\ UNCHANGED <<cfg, now, offchainHead, pool>>

NextMigration ==
    \/ \E key \in StoredKeys, value \in RawValues : PutRaw(key, value)
    \/ \E from_prefix \in Prefixes, to_prefix \in Prefixes :
           MovePrefix(from_prefix, to_prefix)
    \/ MovePrefixNext

SpecMigration == InitFn /\ [][NextMigration]_vars

(***************************************************************************)
(* A node that runs offchain_worker at every block it imports: block       *)
(* now + 1 is imported once the worker of block now has run, the worker    *)
(* of a block runs right after its on_initialize, and a transaction may be *)
(* dispatched after the worker.                                            *)
(***************************************************************************)
EveryTickConfigs ==
    [SignedPhase : {10}, UnsignedPhase : {5, 7}, Cycle : {20},
     MaxSignedSubmissions : {5}, SolutionImprovementThreshold : {0}]

InitEveryTick == cfg \in EveryTickConfigs /\ Genesis

\* the worker of the imported block has not run yet while ret is the return
\* of its on_initialize
NextEveryTick ==
    \/ ret.op # "on_initialize" /\ OnInitializeMock
    \/ ret.op = "on_initialize" /\ OffchainWorker(now)
    \/ ret.op = "offchain_worker" /\ Submit(99, SolFull)
    \/ /\ ret.op = "offchain_worker"
       /\ \E i \in DOMAIN pool : SubmitUnsigned(0, pool[i])

SpecEveryTick == InitEveryTick /\ [][NextEveryTick]_vars

(***************************************************************************)
(* Properties of the signed submission queue.                              *)
(***************************************************************************)
\* the sum of the deposits of the entries of q at the positions I that `a` submitted
DepositsOf(q, a, I) ==
    LET J == {i \in I : q[i].who = a}
    IN  SetSum([i \in J |-> q[i].deposit], J)

\* this step is a submit call that found the phase Signed
SubmitStep == ret'.op = "submit" /\ is_signed(currentPhase)
QueueIsFull == Len(signedSubmissions) >= cfg.MaxSignedSubmissions

\* this step is the on_initialize that ran finalize_signed_phase
FinalizeStep == is_signed(currentPhase) /\ is_unsigned(currentPhase')
\* the state right after that on_initialize
JustFinalized ==
    ret.op = "on_initialize" /\ is_unsigned(currentPhase) /\ currentPhase.at = now

\* feasibility of a queued entry against the snapshot of the current state
Feasible(sub) ==
    feasibility_check(sub.solution, "Signed", desiredTargets,
                      snapshotVoters, snapshotTargets).ok
\* the positions of the queue whose entry is feasible, and the last of them
FeasibleAt == {i \in 1..Len(signedSubmissions) : Feasible(signedSubmissions[i])}
LastFeasible == SetMax(FeasibleAt)

\* the entries of q at positions hi, hi-1, ..., lo
Descending(q, hi, lo) == [j \in 1..(hi - lo + 1) |-> q[hi - j + 1]]

\* C1: the stored queue never holds more than MaxSignedSubmissions entries,
\* and the length assertions of insert_submission and submit never fail.
C1_QueueBounded ==
    /\ Len(signedSubmissions) <= cfg.MaxSignedSubmissions
    /\ ~(ret.op = "submit" /\ ret.result = "panic")

\* a submit into a full queue of two that evicted the entry at index 0
C1_Witness ==
    /\ ret.op = "submit" /\ ret.result = "Ok" /\ ret.evicted # <<>>
    /\ Len(signedSubmissions) = 2 /\ cfg.MaxSignedSubmissions = 2

\* C2: for every configured threshold the queue is sorted ascending by
\* score: no entry is better than an entry stored after it.
C2_QueueSorted ==
    \A i, j \in 1..Len(signedSubmissions) :
        i < j => ~is_score_better(signedSubmissions[i].solution.score,
                                  signedSubmissions[j].solution.score, 0)

\* C3: a submit or submit_unsigned call that returns an error leaves the
\* whole persisted state as it was.
C3_RejectedCallsChangeNothing ==
    [][ ( /\ ret'.op \in {"submit", "submit_unsigned"}
          /\ ret'.result \in {"EarlySubmission", "QueueFull", "CannotPayDeposit",
                              "WeakSubmission", "BadOrigin"} )
        => UNCHANGED storage ]_vars

\* a submit whose entry would have been stored, had the deposit been payable
C3_Witness ==
    /\ ret.op = "submit" /\ ret.result = "CannotPayDeposit"
    /\ Len(signedSubmissions) < cfg.MaxSignedSubmissions

\* C4 as stated: with a full queue, a submission whose score equals the
\* score of any queued entry is rejected with QueueFull and nothing changes.
C4_EqualScoreRejected ==
    [][ ( /\ SubmitStep /\ QueueIsFull
          /\ \E i \in 1..Len(signedSubmissions) :
                signedSubmissions[i].solution.score = ret'.solution.score )
        => (ret'.result = "QueueFull" /\ UNCHANGED storage) ]_vars

\* C4 amended: with a full queue, a submission whose score equals the score
\* of a queued entry and is no improvement, by the threshold, over any
\* queued entry is rejected with QueueFull and nothing changes.
C4_EqualAndNoImprovementRejected ==
    [][ ( /\ SubmitStep /\ QueueIsFull
          /\ \E i \in 1..Len(signedSubmissions) :
                signedSubmissions[i].solution.score = ret'.solution.score
          /\ \A i \in 1..Len(signedSubmissions) :
                ~is_score_better(ret'.solution.score,
                                 signedSubmissions[i].solution.score,
                                 cfg.SolutionImprovementThreshold) )
        => (ret'.result = "QueueFull" /\ UNCHANGED storage) ]_vars

\* a submission equal to the entry at index 0 of a full queue of two was rejected
C4_Witness ==
    /\ ret.op = "submit" /\ ret.result = "QueueFull"
    /\ Len(signedSubmissions) = 2 /\ cfg.MaxSignedSubmissions = 2
    /\ signedSubmissions[1].solution.score = ret.solution.score
    /\ signedSubmissions[2].solution.score # ret.solution.score

\* C5: a stored submission into a full queue that improves on the entry at
\* index 0 removes exactly that entry, keeps the others in their order and
\* is put at its sorted position.
C5_WorstEvictedNewSorted ==
    [][ ( /\ SubmitStep /\ QueueIsFull /\ ret'.result = "Ok"
          /\ is_score_better(ret'.solution.score,
                             signedSubmissions[1].solution.score,
                             cfg.SolutionImprovementThreshold) )
        => \E at \in 1..Len(signedSubmissions) :
              LET new == signedSubmissions'[at]
                  others == SubSeq(signedSubmissions', 1, at - 1)
                                \o SubSeq(signedSubmissions', at + 1,
                                          Len(signedSubmissions'))
              IN  /\ new.who = ret'.who /\ new.solution = ret'.solution
                  /\ others = Tail(signedSubmissions)
                  /\ \A i \in 1..Len(signedSubmissions') :
                        /\ i < at => ~is_score_better(
                                        signedSubmissions'[i].solution.score,
                                        new.solution.score, 0)
                        /\ i > at => ~is_score_better(
                                        new.solution.score,
                                        signedSubmissions'[i].solution.score, 0)
      ]_vars

\* C6: the deposit of the entry evicted by a submit is unreserved in full
\* in that call: the balances after it are those after reserving the new
\* deposit and unreserving the evicted one.
C6_EvictedRefunded ==
    [][ (SubmitStep /\ ret'.result = "Ok" /\ ret'.evicted # <<>>)
        => LET e == ret'.evicted[1]
               paid == reserve(balances, ret'.who, deposit_for(ret'.solution)).val
           IN  balances' = unreserve(paid, e.who, e.deposit).bal ]_vars

\* C7: after finalize_signed_phase the queue is empty and no account keeps
\* a reserved balance.
C7_AllDepositsResolved ==
    JustFinalized => /\ signedSubmissions = <<>>
                     /\ \A a \in Accounts : balances[a].reserved = 0

\* C8: finalize_signed_phase examines the entries from the last towards the
\* first; the first that passes feasibility_check becomes the queued
\* solution with compute Signed, its submitter has the deposit unreserved
\* and the reward credited, the result is true and nothing else is checked.
C8_FirstFeasibleFromTheEndWins ==
    [][ (FinalizeStep /\ FeasibleAt # {})
        => LET q == signedSubmissions
               k == LastFeasible
               w == q[k].who
           IN  /\ queuedSolution'.some
               /\ queuedSolution'.val.score = q[k].solution.score
               /\ queuedSolution'.val.compute = "Signed"
               /\ queuedSolution'.val.supports =
                    feasibility_check(q[k].solution, "Signed", desiredTargets,
                                      snapshotVoters, snapshotTargets).val.supports
               /\ ret'.checked = Descending(q, Len(q), k)
               /\ currentPhase' = PhaseUnsigned(FALSE, now')
               /\ balances'[w].free = balances[w].free + q[k].reward
                                        + DepositsOf(q, w, 1..k)
               /\ balances'[w].reserved = balances[w].reserved
                                            - DepositsOf(q, w, 1..Len(q))
      ]_vars

\* deposit 5 and reward 7: (12, 0), after submit (7, 5), after the drain (19, 0)
C8_Witness ==
    /\ JustFinalized /\ ~currentPhase.active
    /\ queuedSolution.some /\ queuedSolution.val.compute = "Signed"
    /\ Len(ret.checked) = 1 /\ ret.checked[1].who = 99
    /\ balances[99] = [free |-> 19, reserved |-> 0]

\* C9: every entry that finalize_signed_phase checks and that fails loses
\* its whole deposit and gets nothing back; when no entry passes, the result
\* is false and no queued solution is written.
C9_FailedEntriesSlashed ==
    [][ FinalizeStep
        => LET q == signedSubmissions
               k == IF FeasibleAt = {} THEN 0 ELSE LastFeasible
               failed == (k + 1)..Len(q)
           IN  /\ \A a \in Accounts :
                    \* the reserved balance gives up every deposit of the queue ...
                    /\ balances'[a].reserved = balances[a].reserved
                                                 - DepositsOf(q, a, 1..Len(q))
                    \* ... and no deposit of a failed entry comes back
                    /\ balances[a].free + balances[a].reserved
                         - (balances'[a].free + balances'[a].reserved)
                       = DepositsOf(q, a, failed)
                           - (IF k > 0 /\ q[k].who = a THEN q[k].reward ELSE 0)
               /\ \A i \in failed : \E j \in 1..Len(ret'.checked) : ret'.checked[j] = q[i]
               /\ k = 0 => /\ currentPhase' = PhaseUnsigned(TRUE, now')
                           /\ queuedSolution' = queuedSolution
      ]_vars

\* claimed score off by one: (7, 5) after submit, (7, 0) after the drain
C9_Witness ==
    /\ JustFinalized /\ currentPhase.active
    /\ Len(ret.checked) = 1 /\ ret.checked[1].who = 99
    /\ ret.checked[1].solution = SolOffByOne
    /\ balances[99] = [free |-> 7, reserved |-> 0]

\* C10: once an entry is accepted, the entries still in the queue are not
\* feasibility-checked and have their full deposit unreserved, without
\* reward or slash, feasible or not.
C10_UnprocessedRefunded ==
    [][ (FinalizeStep /\ FeasibleAt # {})
        => LET q == signedSubmissions
               k == LastFeasible
           IN  /\ ret'.unprocessed = SubSeq(q, 1, k - 1)
               /\ Len(ret'.checked) = Len(q) - k + 1
               /\ \A a \in Accounts :
                    (\A i \in k..Len(q) : q[i].who # a)
                    => /\ balances'[a].free = balances[a].free
                                                + DepositsOf(q, a, 1..(k - 1))
                       /\ balances'[a].reserved = balances[a].reserved
                                                    - DepositsOf(q, a, 1..(k - 1))
      ]_vars

\* an infeasible entry was left unprocessed and its submitter got the deposit back
C10_Witness ==
    /\ JustFinalized /\ ~currentPhase.active
    /\ Len(ret.unprocessed) = 1
    /\ ret.unprocessed[1].solution = SolDefault35
    /\ ret.unprocessed[1].who = 999
    /\ balances[999] = [free |-> 7, reserved |-> 0]

(***************************************************************************)
(* Properties of the phase rotation, the round and the snapshot.           *)
(***************************************************************************)
\* this step is an on_initialize call
OnInitializeStep == ret'.op = "on_initialize" /\ now' = now + 1
\* the predicted time to the next election, as on_initialize(now') computes it
RemainingNext == Max2(next_election_prediction(cfg.Cycle, now'), now') - now'
\* this step is an elect call that returned Ok
ElectOkStep == ret'.op = "elect" /\ ret'.result = "Ok"

\* C11: on_initialize moves Off to Signed exactly when UnsignedPhase <
\* remaining <= SignedPhase + UnsignedPhase and Signed to Unsigned exactly
\* when 0 < remaining <= UnsignedPhase, and nothing else makes these moves;
\* with the lengths 10 and 5 and a cycle of 20 the phase is Off through
\* block 4, becomes Signed at 5, stays Signed through 14, becomes Unsigned at
\* 15 and stays so, and is Off right after an elect.
C11_PhaseTiming ==
    [][ /\ (OnInitializeStep /\ is_off(currentPhase))
            => /\ is_signed(currentPhase')
                    <=> (/\ RemainingNext > cfg.UnsignedPhase
                         /\ RemainingNext <= cfg.SignedPhase + cfg.UnsignedPhase)
               /\ is_signed(currentPhase') \/ is_off(currentPhase')
        /\ (OnInitializeStep /\ is_signed(currentPhase))
            => /\ is_unsigned(currentPhase')
                    <=> (RemainingNext > 0 /\ RemainingNext <= cfg.UnsignedPhase)
               /\ is_unsigned(currentPhase') \/ is_signed(currentPhase')
        /\ (currentPhase' # currentPhase /\ ~is_off(currentPhase'))
            => OnInitializeStep
        /\ cfg \in MockConfigs
            => /\ now' <= 4 => is_off(currentPhase')
               /\ (OnInitializeStep /\ now' = 5) => is_signed(currentPhase')
               /\ (OnInitializeStep /\ now' \in 6..14 /\ is_signed(currentPhase))
                    => is_signed(currentPhase')
               /\ (OnInitializeStep /\ now' = 15 /\ is_signed(currentPhase))
                    => is_unsigned(currentPhase')
               /\ (OnInitializeStep /\ is_unsigned(currentPhase))
                    => currentPhase' = currentPhase
               /\ ElectOkStep => is_off(currentPhase')
      ]_vars

\* block 15 of the first round: the unsigned phase has just opened
C11_Witness ==
    /\ cfg \in MockConfigs /\ now = 15 /\ round = 1
    /\ ret.op = "on_initialize" /\ currentPhase = PhaseUnsigned(TRUE, 15)

\* C12: once the phase is Unsigned((active, at)) it keeps exactly that
\* value over every on_initialize, also at and after the predicted election,
\* and over every submit_unsigned; only an elect that returns Ok leaves the
\* unsigned phase, and it sets the phase to Off.
C12_UnsignedUntilElect ==
    [][ is_unsigned(currentPhase)
        => \/ currentPhase' = currentPhase
           \/ ElectOkStep /\ currentPhase' = PhaseOff ]_vars

\* still Unsigned((_, 15)) at block 21, after the election predicted for
\* block 20, with a solution queued by submit_unsigned
C12_Witness ==
    /\ cfg \in MockConfigs /\ now = 21 /\ ret.op = "on_initialize"
    /\ currentPhase = PhaseUnsigned(TRUE, 15)
    /\ queuedSolution.some /\ queuedSolution.val.compute = "Unsigned"

C14_RoundAndSnapshot ==
    [][ /\ IF is_off(currentPhase) /\ is_signed(currentPhase')
           THEN /\ round' = round + 1
                /\ snapshotVoters' = Some(Voters)
                /\ snapshotTargets' = Some(Targets)
                /\ desiredTargets' = ProviderDesiredTargets
           ELSE /\ round' = round
                /\ \/ UNCHANGED <<snapshotVoters, snapshotTargets, desiredTargets>>
                   \/ ElectOkStep
      ]_vars

\* the second round has opened: an elect during the first signed phase, then
\* the next on_initialize
C14_Witness ==
    /\ round = 2 /\ is_signed(currentPhase) /\ ret.op = "on_initialize"
    /\ snapshotVoters = Some(Voters) /\ snapshotTargets = Some(Targets)
    /\ desiredTargets = ProviderDesiredTargets

\* C15: in every reachable state the snapshot of voters and the snapshot of
\* targets are present exactly when the phase is Signed or Unsigned; after
\* an elect that returned Ok the phase is Off and both are absent.
C15_SnapshotIffPhaseOpen ==
    /\ snapshotVoters.some <=> (is_signed(currentPhase) \/ is_unsigned(currentPhase))
    /\ snapshotTargets.some <=> (is_signed(currentPhase) \/ is_unsigned(currentPhase))
    /\ (ret.op = "elect" /\ ret.result = "Ok")
        => (is_off(currentPhase) /\ ~snapshotVoters.some /\ ~snapshotTargets.some)

\* an elect in the unsigned phase returned Ok and killed the snapshot
C15_Witness ==
    /\ ret.op = "elect" /\ ret.result = "Ok" /\ currentPhase = PhaseOff
    /\ round = 1 /\ now = 4 /\ snapshotVoters = None /\ snapshotTargets = None

\* C16: the accepted ReadySolution is destroyed when the round settles:
\* after an elect that returned Ok no queued solution exists.
C16_QueuedSolutionDestroyedByElect ==
    (ret.op = "elect" /\ ret.result = "Ok") => ~queuedSolution.some

\* C17: the signed queue is cleared at settlement: after an elect that
\* returned Ok, in whatever phase it was called, the queue is empty, and the
\* queue is empty whenever the phase is Off.
C17_QueueClearedByElect ==
    /\ (ret.op = "elect" /\ ret.result = "Ok") => signedSubmissions = <<>>
    /\ is_off(currentPhase) => signedSubmissions = <<>>

C19_PhaseGating ==
    [][/\ ret'.op = "submit" =>
            /\ currentPhase.tag # "Signed" =>
                 ret'.result = "EarlySubmission" /\ UNCHANGED storage
            /\ ret'.result = "Ok" => currentPhase.tag = "Signed"
       /\ ret'.op = "submit_unsigned" =>
            /\ ~(currentPhase.tag = "Unsigned" /\ currentPhase.active) =>
                 /\ ret'.result # "Ok"
                 /\ ret'.who = 0 => ret'.result = "EarlySubmission"
                 /\ UNCHANGED storage
            /\ ret'.result = "Ok" =>
                 currentPhase.tag = "Unsigned" /\ currentPhase.active]_vars

C19_Witness ==
    /\ ret.op = "submit_unsigned" /\ ret.who = 0
    /\ ret.result = "EarlySubmission"
    /\ currentPhase.tag = "Unsigned" /\ ~currentPhase.active
    /\ feasibility_check(ret.solution, "Unsigned", desiredTargets,
                         snapshotVoters, snapshotTargets).ok

\* the results of the checks of ticks, one after the other, starting with
\* the marker head: TRUE for a check that succeeded
RECURSIVE CheckResults(_, _)
CheckResults(ticks, head) ==
    IF ticks = <<>> THEN <<>>
    ELSE LET r == set_check_offchain_execution_status(Head(ticks), head)
         IN  <<r.ok>> \o CheckResults(Tail(ticks), IF r.ok THEN Some(r.val) ELSE head)

\* C20: the dedup check of tick n against the persisted marker head is
\* rejected, leaving the marker, when n < head or head <= n <= head + 5, and
\* otherwise (no marker, or n > head + 5) succeeds and sets the marker to n;
\* the checks of 15, 16, 21, 18, 19, 20 in this order from no marker give
\* ok, rejected, ok, rejected, rejected, rejected.
C20_DedupWindow ==
    [][ret'.op = "set_check_offchain_execution_status" =>
         /\ IF /\ offchainHead.some
               /\ \/ ret'.n < offchainHead.val
                  \/ offchainHead.val <= ret'.n /\ ret'.n <= offchainHead.val + 5
            THEN ret'.result # "Ok" /\ offchainHead' = offchainHead
            ELSE ret'.result = "Ok" /\ offchainHead' = Some(ret'.n)
         /\ CheckResults(<<15, 16, 21, 18, 19, 20>>, None)
              = <<TRUE, FALSE, TRUE, FALSE, FALSE, FALSE>>]_vars

C20_Witness ==
    /\ ret.op = "set_check_offchain_execution_status"
    /\ ret.n = 20 /\ ret.result # "Ok"
    /\ offchainHead = Some(21)

(***************************************************************************)
(* Properties of the unsigned phase: the offchain worker, the pre-dispatch *)
(* checks and the feasibility check.                                       *)
(***************************************************************************)
\* C21: offchain_worker(n) puts a mined solution into the transaction pool
\* only if the dedup check at n succeeds and the phase is Unsigned((true, n));
\* then it submits one solution, which is feasible; at any other block
\* number, with active = false or with a rejected dedup check the pool is
\* left as it is, and nothing else writes to the pool.
C21_WorkerOnlyWhenOpenNow ==
    [][/\ ret'.op = "offchain_worker" =>
            IF /\ ~offchainHead.some \/ ret'.n > offchainHead.val + OFFCHAIN_REPEAT
               /\ currentPhase.tag = "Unsigned"
               /\ currentPhase.active
               /\ currentPhase.at = ret'.n
            THEN /\ Len(pool') = Len(pool) + 1
                 /\ SubSeq(pool', 1, Len(pool)) = pool
                 /\ feasibility_check(pool'[Len(pool')], "Unsigned", desiredTargets,
                                      snapshotVoters, snapshotTargets).ok
            ELSE pool' = pool
       /\ pool' # pool => ret'.op = "offchain_worker"]_vars

C21_Witness ==
    /\ ret.op = "offchain_worker" /\ ret.result = "Submitted"
    /\ pool = <<ret.solution>>
    /\ currentPhase = PhaseUnsigned(TRUE, ret.n)

\* a step of submit_unsigned with origin none in an active unsigned phase
UnsignedOpenStep ==
    /\ ret'.op = "submit_unsigned" /\ ret'.who = 0
    /\ currentPhase.tag = "Unsigned" /\ currentPhase.active

\* score a is better than score b: more total backing, or as much and a larger
\* minimal backing, or as much of both and a smaller sum of squares
StrictlyBetter(a, b) ==
    \/ a[1] > b[1]
    \/ a[1] = b[1] /\ a[2] > b[2]
    \/ a[1] = b[1] /\ a[2] = b[2] /\ a[3] < b[3]

\* C22: in an active unsigned phase submit_unsigned returns WeakSubmission,
\* and writes nothing, exactly when a solution is queued and the claimed
\* score is not better than the queued score by SolutionImprovementThreshold;
\* with no solution queued no score is weak; an accepted submission replaces
\* the queued solution by one with a strictly better score.
C22_WeakUnlessBetterByThreshold ==
    [][UnsignedOpenStep =>
         /\ ret'.result = "WeakSubmission" <=>
              /\ queuedSolution.some
              /\ ~is_score_better(ret'.solution.score, queuedSolution.val.score,
                                  cfg.SolutionImprovementThreshold)
         /\ ret'.result = "WeakSubmission" => UNCHANGED storage
         /\ ret'.result = "Ok" =>
              /\ queuedSolution'.some
              /\ queuedSolution'.val.score = ret'.solution.score
              /\ queuedSolution.some =>
                   StrictlyBetter(queuedSolution'.val.score, queuedSolution.val.score)]_vars

\* a solution with a better score that is weak under the threshold
C22_Witness ==
    /\ ret.op = "submit_unsigned" /\ ret.result = "WeakSubmission"
    /\ cfg.SolutionImprovementThreshold > 0
    /\ queuedSolution.some
    /\ StrictlyBetter(ret.solution.score, queuedSolution.val.score)

\* C23: a submit_unsigned with origin none that passes the pre-dispatch
\* checks and fails feasibility_check does not return an error: it panics,
\* and writes no queued solution nor anything else; it panics in no other case.
C23_InfeasibleUnsignedPanics ==
    [][/\ ( /\ UnsignedOpenStep
            /\ \/ ~queuedSolution.some
               \/ is_score_better(ret'.solution.score, queuedSolution.val.score,
                                  cfg.SolutionImprovementThreshold)
            /\ ~feasibility_check(ret'.solution, "Unsigned", desiredTargets,
                                  snapshotVoters, snapshotTargets).ok )
          => ret'.result = "panic" /\ UNCHANGED storage
       /\ (ret'.op = "submit_unsigned" /\ ret'.result = "panic")
          => /\ UnsignedOpenStep
             /\ ~feasibility_check(ret'.solution, "Unsigned", desiredTargets,
                                   snapshotVoters, snapshotTargets).ok]_vars

C23_Witness ==
    /\ ret.op = "submit_unsigned" /\ ret.who = 0 /\ ret.result = "panic"
    /\ ret.solution = SolOffByOne
    /\ is_unsigned_open(currentPhase)
    /\ ~queuedSolution.some

\* the score of the supports a compact decodes to against the stored
\* snapshot, its winners being the targets it names
TrueScore(compact) ==
    LET w == unique_targets(compact)
    IN  CompactScore(compact,
                     [i \in 1..Len(w) |-> target_at(snapshotTargets.val, w[i]).val],
                     snapshotVoters.val, snapshotTargets.val)

\* compact is feasible when it is submitted with its true score
OtherwiseFeasible(compact) ==
    /\ snapshotVoters.some /\ snapshotTargets.some
    /\ Len(unique_targets(compact)) = desiredTargets
    /\ \A i \in 1..Len(unique_targets(compact)) :
          target_at(snapshotTargets.val, unique_targets(compact)[i]).some
    /\ TrueScore(compact).ok
    /\ feasibility_check(RawSolution(compact, TrueScore(compact).val), "Signed",
                         desiredTargets, snapshotVoters, snapshotTargets).ok

\* C24: feasibility_check accepts a solution only if the score recomputed
\* from the supports equals the claimed score in all three components; for
\* a solution that is feasible with its true score, any other claimed score,
\* in particular one with a single component changed by +1 or -1, gives
\* InvalidScore.
C24_ScoreMustMatchExactly ==
    [][ret'.op = "feasibility_check" =>
         /\ ret'.result = "Ok" =>
              /\ OtherwiseFeasible(ret'.solution.compact)
              /\ \A i \in 1..3 :
                    ret'.solution.score[i] = TrueScore(ret'.solution.compact).val[i]
         /\ ( /\ OtherwiseFeasible(ret'.solution.compact)
              /\ \E i \in 1..3, d \in {-1, 1} :
                    ret'.solution.score =
                        [TrueScore(ret'.solution.compact).val EXCEPT ![i] = @ + d] )
            => ret'.result = "InvalidScore"]_vars

C24_Witness ==
    /\ ret.op = "feasibility_check" /\ ret.result = "InvalidScore"
    /\ ret.solution = Perturbed(SolSplit, 3, -1)
    /\ OtherwiseFeasible(ret.solution.compact)

\* C25: feasibility_check is pure: whatever its input and its result, it
\* leaves the phase, the round, the queue, the queued solution, the snapshot
\* and the balances as they are, and a second call with the same arguments
\* in the same state gives the same result.
C25_FeasibilityCheckPure ==
    [][ret'.op = "feasibility_check" =>
         /\ UNCHANGED <<currentPhase, round, signedSubmissions, queuedSolution,
                        snapshotVoters, snapshotTargets, desiredTargets, balances>>
         /\ ( /\ ret.op = "feasibility_check"
              /\ ret.solution = ret'.solution
              /\ ret.value.compute = ret'.value.compute )
            => ret'.result = ret.result /\ ret'.value = ret.value]_vars

C25_Witness ==
    /\ ret.op = "feasibility_check" /\ ret.result = "Ok"
    /\ ret.value.compute = "Unsigned"
    /\ signedSubmissions # <<>>
    /\ ~queuedSolution.some

\* the queued solution after submit_unsigned(none, solution) is dispatched in
\* the current phase with queued as the stored QueuedSolution
AfterUnsigned(queued, solution) ==
    IF /\ pre_dispatch_checks(solution, currentPhase, queued,
                              cfg.SolutionImprovementThreshold).ok
       /\ feasibility_check(solution, "Unsigned", desiredTargets,
                            snapshotVoters, snapshotTargets).ok
    THEN Some(feasibility_check(solution, "Unsigned", desiredTargets,
                                snapshotVoters, snapshotTargets).val)
    ELSE queued

RECURSIVE AfterAllUnsigned(_, _)
\* the queued solution after the submissions of order, one after the other
AfterAllUnsigned(queued, order) ==
    IF order = <<>> THEN queued
    ELSE AfterAllUnsigned(AfterUnsigned(queued, Head(order)), Tail(order))

UnsignedClosedStep ==
    /\ ret'.op = "submit_unsigned" /\ ret'.who = 0
    /\ currentPhase.tag = "Unsigned" /\ ~currentPhase.active
    /\ queuedSolution.some /\ queuedSolution.val.compute = "Signed"

RECURSIVE ByFanoutFrom(_, _)
ByFanoutFrom(a, k) ==
    IF k > LIMIT THEN <<>>
    ELSE SelectSeq(a, LAMBDA x : Len(x.distribution) = k) \o ByFanoutFrom(a, k + 1)

RECURSIVE TotalShares(_, _)
\* the sum of the first n shares of a distribution
TotalShares(d, n) == IF n = 0 THEN 0 ELSE TotalShares(d, n - 1) + d[n].p

\* a round trip of a list in which each voter appears once with 1..LIMIT
\* targets and shares that sum to one
RoundTripDone ==
    /\ ret.op = "round_trip"
    /\ \A i, j \in DOMAIN ret.arg : ret.arg[i].who = ret.arg[j].who => i = j
    /\ \A i \in DOMAIN ret.arg :
          /\ Len(ret.arg[i].distribution) \in 1..LIMIT
          /\ TotalShares(ret.arg[i].distribution, Len(ret.arg[i].distribution)) = PerU16One

\* the share of the last target of every assignment is positive
LastSharesPositive(a) ==
    \A i \in DOMAIN a : a[i].distribution[Len(a[i].distribution)].p > 0

\* C28 as stated: the round trip of every such list returns Ok with the same
\* assignments (same voters, same targets, same shares), in any order.
C28_RoundTripOfEveryList ==
    RoundTripDone =>
        /\ ret.out.ok
        /\ Len(ret.out.val) = Len(ret.arg)
        /\ {ret.out.val[i] : i \in DOMAIN ret.out.val} = {ret.arg[i] : i \in DOMAIN ret.arg}

\* C28: the round trip of such a list returns Ok exactly when the last share
\* of every assignment is positive, and then returns the same assignments
\* (same voters, same targets, same shares) grouped by increasing fan-out,
\* each group in the order of the list; a list with an assignment of two or
\* more targets whose last share is zero returns CompactStakeOverflow.
C28_RoundTripOfPositiveLastShares ==
    RoundTripDone =>
        /\ ret.result = "Ok"
        /\ IF LastSharesPositive(ret.arg)
           THEN ret.out = Ok(ByFanoutFrom(ret.arg, 1))
           ELSE ret.out = Err("CompactStakeOverflow")

\* a list of three voters with fan-outs 16, 1 and 2 that comes back reordered
C28_Witness ==
    /\ RoundTripDone
    /\ Len(ret.arg) = 3
    /\ Len(ret.arg[1].distribution) = LIMIT
    /\ LastSharesPositive(ret.arg)
    /\ ret.out.ok
    /\ ret.out.val # ret.arg
    /\ ret.out.val[3] = ret.arg[1]

\* the voter indices of the entries of a compact
VotersIn(compact) ==
    UNION {{compact[k][i].voter : i \in 1..Len(compact[k])} : k \in 1..LIMIT}

\* voter index v comes before voter index w in ascending order of snapshot
\* stake, ties in snapshot order
LowerStake(v, w) ==
    \/ snapshotVoters.val[v + 1].stake < snapshotVoters.val[w + 1].stake
    \/ /\ snapshotVoters.val[v + 1].stake = snapshotVoters.val[w + 1].stake
       /\ v < w

C30_MinedSolutionsTrimmedToBudget ==
    \A i \in DOMAIN pool :
        CompactLen(pool[i].compact)
            <= maximum_compact_len(SubmitUnsignedWeight, 0, DefaultWitnessData, 0).val

(***************************************************************************)
(* Properties of storage::migration::move_prefix.                          *)
(***************************************************************************)
\* the keys stored after the prefix when move_prefix was called
KeysAfterPrefix ==
    {k \in DOMAIN iter.at_call : starts_with(k, iter.prefix) /\ k # iter.prefix}

\* the key a key after the prefix is to be moved to
Destination(k) == iter.to_prefix \o SubSeq(k, Len(iter.prefix) + 1, Len(k))

\* C31: move_prefix(from, to) with from different from to moves every (key,
\* value) stored after the prefix: when it has returned, for every non-empty
\* suffix s for which from++s held v the key to++s holds v and from++s is not
\* stored; a key equal to the prefix is not moved and the other keys are
\* unchanged; the loop runs once for each key stored after the prefix, so the
\* call terminates; when from equals to nothing changes.
C31_MovePrefixMovesEverySuffix ==
    /\ iter.moved <= Cardinality(KeysAfterPrefix)
    /\ iter.pc = "returned" =>
          IF iter.prefix = iter.to_prefix THEN raw = iter.at_call
          ELSE /\ \A k \in KeysAfterPrefix :
                    /\ Destination(k) \in DOMAIN raw
                    /\ raw[Destination(k)] = iter.at_call[k]
                    /\ k \notin DOMAIN raw
               /\ \A k \in DOMAIN iter.at_call \ KeysAfterPrefix :
                    k \notin {Destination(l) : l \in KeysAfterPrefix}
                        => k \in DOMAIN raw /\ raw[k] = iter.at_call[k]
               /\ DOMAIN raw \subseteq
                      (DOMAIN iter.at_call \ KeysAfterPrefix)
                          \cup {Destination(l) : l \in KeysAfterPrefix}

(***************************************************************************)
(* Properties of the order of the phases, of the order of the queue, of    *)
(* the errors of the conversions, and of the offchain worker over time.    *)
(***************************************************************************)
\* C32: the signed phase always starts before the unsigned phase: a step
\* that leaves the phase Unsigned starts in Signed (or in Unsigned already),
\* never in Off, stays in the round the signed phase opened, and keeps the
\* snapshot that was taken when the signed phase started.
C32_UnsignedOnlyFromSigned ==
    [][currentPhase'.tag = "Unsigned" =>
         /\ currentPhase.tag \in {"Signed", "Unsigned"}
         /\ round >= 1 /\ round' = round
         /\ snapshotVoters.some /\ snapshotTargets.some
         /\ snapshotVoters' = snapshotVoters
         /\ snapshotTargets' = snapshotTargets]_vars

\* the block at which on_initialize has turned Signed into Unsigned
C32_Witness ==
    /\ ret.op = "on_initialize"
    /\ currentPhase.tag = "Unsigned" /\ currentPhase.at = now
    /\ round >= 1 /\ snapshotVoters.some

\* C33: when finalize_signed_phase accepts an entry, every entry it leaves
\* unprocessed has a strictly worse score than the accepted one.
C33_UnprocessedStrictlyWorse ==
    [][(FinalizeStep /\ FeasibleAt # {})
       => \A i \in DOMAIN ret'.unprocessed :
              StrictlyBetter(signedSubmissions[LastFeasible].solution.score,
                             ret'.unprocessed[i].solution.score)]_vars

\* the positions of the queue after a submit at which the entry just stored
\* can sit: the entry is the submitted one and the other entries are the old
\* queue, without its first entry when one was evicted
StoredAt ==
    {idx \in 1..Len(signedSubmissions') :
        /\ signedSubmissions'[idx].who = ret'.who
        /\ signedSubmissions'[idx].solution = ret'.solution
        /\ RemoveAt(signedSubmissions', idx) =
              IF ret'.evicted = <<>> THEN signedSubmissions
              ELSE Tail(signedSubmissions)}

\* C34: a submission stored while an entry of equal score is in the queue is
\* stored in front of that entry (nearer index 0), so the entry submitted
\* earlier is nearer the best end; and when finalize_signed_phase accepts an
\* entry, every other entry of the same score is in front of it and is left
\* unprocessed: its submitter gets the deposit back and no reward.
C34_EarlierOfEqualScoresFirst ==
    [][/\ (ret'.op = "submit" /\ ret'.result = "Ok")
          => \E idx \in StoredAt :
                 \A j \in 1..Len(signedSubmissions') :
                     (j # idx /\ signedSubmissions'[j].solution.score = ret'.solution.score)
                         => idx < j
       /\ (FinalizeStep /\ FeasibleAt # {})
          => LET q == signedSubmissions
                 k == LastFeasible
             IN  \A i \in 1..Len(q) :
                     (i # k /\ q[i].solution.score = q[k].solution.score /\ Feasible(q[i]))
                         => /\ i < k
                            /\ q[i] \in {ret'.unprocessed[j] : j \in DOMAIN ret'.unprocessed}
                            /\ q[i].who # q[k].who =>
                                  /\ balances'[q[i].who].free
                                       = balances[q[i].who].free
                                           + DepositsOf(q, q[i].who, 1..k)
                                  /\ balances'[q[i].who].reserved
                                       = balances[q[i].who].reserved
                                           - DepositsOf(q, q[i].who, 1..Len(q))]_vars

\* two feasible submissions of the same score by different submitters: the
\* one at the best end was accepted, the other was left unprocessed
C34_Witness ==
    /\ JustFinalized
    /\ Len(ret.checked) = 1 /\ Len(ret.unprocessed) = 1
    /\ ret.unprocessed[1].solution = ret.checked[1].solution
    /\ ret.unprocessed[1].who # ret.checked[1].who
    /\ queuedSolution.some /\ queuedSolution.val.score = ret.checked[1].solution.score

\* a feasibility_check of a compact with the right number of distinct
\* targets, with the snapshot present
IndexCheckDone ==
    /\ ret.op = "feasibility_check"
    /\ Len(unique_targets(ret.solution.compact)) = desiredTargets
    /\ snapshotVoters.some /\ snapshotTargets.some

\* some target index of the compact does not resolve against the snapshot
UnresolvedTarget(compact) ==
    \E i \in DOMAIN unique_targets(compact) :
        ~target_at(snapshotTargets.val, unique_targets(compact)[i]).some

\* some voter index of the compact does not resolve against the snapshot
UnresolvedVoter(compact) ==
    \E v \in VotersIn(compact) : ~voter_at(snapshotVoters.val, v).some

\* the explicit shares of some entry of the compact sum to one or more
SharesOverflow(compact) ==
    \E k \in 2..LIMIT : \E i \in DOMAIN compact[k] :
        SumShares(compact[k][i].inners, k - 1) >= PerU16One

\* C35 as stated: a voter index that does not resolve yields InvalidVoter
\* and a target index that does not resolve yields InvalidWinner.
C35_UnresolvedIndexErrors ==
    IndexCheckDone =>
        /\ UnresolvedTarget(ret.solution.compact) /\ ~UnresolvedVoter(ret.solution.compact)
             => ret.result = "InvalidWinner"
        /\ UnresolvedVoter(ret.solution.compact) /\ ~UnresolvedTarget(ret.solution.compact)
             => ret.result = "InvalidVoter"
        /\ UnresolvedVoter(ret.solution.compact) /\ UnresolvedTarget(ret.solution.compact)
             => ret.result \in {"InvalidVoter", "InvalidWinner"}

\* C35: a target index that does not resolve yields InvalidWinner, whatever
\* the voter indices; with every target index resolved, a voter index that
\* does not resolve yields the error of into_assignment:
\* NposElectionError(CompactInvalidIndex), or
\* NposElectionError(CompactStakeOverflow) when the explicit shares of an
\* entry sum to one or more; feasibility_check never returns InvalidVoter.
C35_UnresolvedVoterIsConversionError ==
    ret.op = "feasibility_check" =>
        /\ ret.result # "InvalidVoter"
        /\ IndexCheckDone =>
             /\ UnresolvedTarget(ret.solution.compact) => ret.result = "InvalidWinner"
             /\ ( /\ UnresolvedVoter(ret.solution.compact)
                  /\ ~UnresolvedTarget(ret.solution.compact) )
                => /\ ret.result \in {"NposElectionError(CompactInvalidIndex)",
                                       "NposElectionError(CompactStakeOverflow)"}
                   /\ ~SharesOverflow(ret.solution.compact)
                        => ret.result = "NposElectionError(CompactInvalidIndex)"

\* voter index 7 of a snapshot of three voters
C35_Witness ==
    /\ IndexCheckDone
    /\ ret.solution = SolBadVoter
    /\ UnresolvedVoter(ret.solution.compact)
    /\ ~UnresolvedTarget(ret.solution.compact)
    /\ ret.result = "NposElectionError(CompactInvalidIndex)"

\* the explicit shares of some entry of two or more targets sum to one or more
ExplicitOverflow(compact) ==
    \E k \in 2..LIMIT : \E i \in DOMAIN compact[k] :
        TotalShares(compact[k][i].inners, k - 1) >= PerU16One

\* every index of the compact resolves against the voters and targets given
\* to the conversion
IndicesResolve(compact) ==
    /\ \A v \in VotersIn(compact) : voter_at(Voters, v).some
    /\ \A i \in DOMAIN unique_targets(compact) :
          target_at(WideTargets, unique_targets(compact)[i]).some

\* the assignments returned have, entry by entry, the explicit shares of the
\* entry and a last share that is one minus their sum and greater than zero
LastSharesImplicit(compact, assignments) ==
    LET entries == BucketsFrom(compact, 1)
    IN  /\ Len(assignments) = Len(entries)
        /\ \A i \in DOMAIN entries :
              LET k == Len(entries[i].inners) + 1
                  d == assignments[i].distribution
              IN  /\ Len(d) = k
                  /\ \A j \in 1..(k - 1) : d[j].p = entries[i].inners[j].p
                  /\ d[k].p = PerU16One - TotalShares(entries[i].inners, k - 1)
                  /\ d[k].p > 0

\* C36 as stated: the conversion returns CompactStakeOverflow whenever the
\* explicit shares of some entry of two or more targets sum to one or more;
\* otherwise the last share is one minus the sum of the explicit shares and
\* is greater than zero.
C36_OverflowAlwaysStakeOverflow ==
    ret.op = "into_assignment" =>
        IF ExplicitOverflow(ret.solution.compact)
        THEN ret.out = Err("CompactStakeOverflow")
        ELSE ret.out.ok => LastSharesImplicit(ret.solution.compact, ret.out.val)

\* C36: when the explicit shares of some entry of two or more targets sum to
\* one or more the conversion returns an error and no assignments: the error
\* is CompactStakeOverflow when every index resolves, and can be
\* CompactInvalidIndex when an index that does not resolve is met before the
\* sum is checked; otherwise, when every index resolves, it returns the
\* assignments, each with a last share that is exactly one minus the sum of
\* the explicit shares and greater than zero.
C36_OverflowIsAnError ==
    ret.op = "into_assignment" =>
        IF ExplicitOverflow(ret.solution.compact)
        THEN /\ ~ret.out.ok
             /\ ret.out.err \in {"CompactStakeOverflow", "CompactInvalidIndex"}
             /\ IndicesResolve(ret.solution.compact)
                  => ret.out.err = "CompactStakeOverflow"
        ELSE /\ ret.out.ok <=> IndicesResolve(ret.solution.compact)
             /\ ret.out.ok => LastSharesImplicit(ret.solution.compact, ret.out.val)

\* sixteen targets whose fifteen explicit shares are the whole each
C36_Witness ==
    /\ ret.op = "into_assignment"
    /\ Len(ret.solution.compact[LIMIT]) = 1
    /\ TotalShares(ret.solution.compact[LIMIT][1].inners, LIMIT - 1) > PerU16One
    /\ ret.out = Err("CompactStakeOverflow")

\* the score of a compact against the winners of the snapshot and its stakes
ScoreOf(compact) ==
    CompactScore(compact, snapshotTargets.val, snapshotVoters.val, snapshotTargets.val)

MaximumCompactLenDone == ret.op = "maximum_compact_len"

\* C38: for every weight of submit_unsigned and every max_weight,
\* maximum_compact_len returns a number of voters between 0 and
\* witness.voters whose weight is within max_weight: its final assertion
\* never fails.
C38_MaximumCompactLenWithinBudget ==
    MaximumCompactLenDone =>
        /\ ret.out.ok
        /\ ret.out.val \in 0..ret.arg.witness.voters
        /\ weight_with(ret.arg.W, ret.out.val) <= ret.arg.max_weight

(***************************************************************************)
(* Properties of the dedup check and of the offchain worker over time.     *)
(***************************************************************************)
DedupCheckStep == ret'.op = "set_check_offchain_execution_status"

C40_MinesAtOpeningTick ==
    (/\ ret.op = "offchain_worker"
     /\ ret.n = now
     /\ currentPhase = PhaseUnsigned(TRUE, now))
        => ret.result = "Submitted"

====
